---- MODULE Spec2Model ----
(***************************************************************************)
(* Costumy: clothing patterns (Pattern / Panel / Line / Curve) and the     *)
(* retry loop that drives the external triangulator.                       *)
(*                                                                         *)
(* Five state machines share this module:                                  *)
(*   SpecMesh    Pattern._make_mesh_for_sim and the prepare.py subprocess  *)
(*   SpecPanel   one Panel and its edge-list operations                    *)
(*   SpecPattern a Pattern, its panels and its stitch list                 *)
(*   SpecCall    the functions that keep no state, each called once        *)
(* Coordinates are exact rationals <<numerator, denominator>>; the Python  *)
(* code computes the same expressions in binary floating point.            *)
(***************************************************************************)
EXTENDS Integers, Sequences, FiniteSets, TLC

VARIABLES
    \* ---- Pattern._make_mesh_for_sim (pattern.py 380-415) ----
    pc,            \* position of the meshing run
    n_attemps,     \* the n_attemps argument of the current recursive call
    invocations,   \* number of subprocess.Popen calls made so far
    json_writes,   \* number of times temp_json_path was written
    json_read,     \* json_writes as seen by the last subprocess when it read the file
    nudge,         \* nudge (in hundredths) used by the last subprocess
    output,        \* first line read from the last subprocess
    pickle_file,   \* invocation that wrote temp_pickle_path (0: never written)
    result,        \* what _make_mesh_for_sim returned
    succeed_at,    \* the triangulator stub: invocation that prints the sentinel (0: none)
    \* ---- one Panel (panel.py) ----
    panel,         \* the Panel object
    panel_ops,     \* the methods called on it so far, oldest first
    panel_err,     \* exception raised by the last call ("None": it returned)
    \* ---- one Pattern (pattern.py) ----
    panels,        \* Pattern.panels
    stitches,      \* Pattern.stitches
    call,          \* the last method called on the pattern, its arguments and outcome
    \* ---- one call of a function that keeps no state of its own ----
    task,          \* the function called and its arguments
    outcome,       \* what the call returned or raised; NoOutcome before the call
    \* ---- a Pattern p and the Pattern q read back from p.as_json() ----
    pattern_p,     \* p: its panels and the list object its stitches attribute names
    pattern_q,     \* q, likewise; NoPattern until Pattern.from_json built it
    heap,          \* the stitch list objects made so far, by object number
    edit           \* the last method called, on which pattern, and its outcome

meshVars == <<pc, n_attemps, invocations, json_writes, json_read, nudge, output,
              pickle_file, result, succeed_at>>

panelVars == <<panel, panel_ops, panel_err>>

patternVars == <<panels, stitches, call>>

callVars == <<task, outcome>>

copyVars == <<pattern_p, pattern_q, heap, edit>>

vars == <<meshVars, panelVars, patternVars, callVars, copyVars>>

(***************************************************************************)
(* Bounds                                                                  *)
(***************************************************************************)
MaxSucceedAt == 41

(***************************************************************************)
(* Retry loop                                                              *)
(***************************************************************************)
MaxAttempts == 40
NudgeStep == 2
NudgeDefault == 1

NoResult == [mesh |-> 0, n_attemps |-> 0]

\* A line of text is a sequence of tokens: "ws" is a whitespace character,
\* "sentinel" the literal text $$success$$, "x" any other text.
Tokens == {"ws", "sentinel", "x"}
SentinelText == <<"sentinel">>

RECURSIVE LStrip(_)
LStrip(s) == IF s # <<>> /\ Head(s) = "ws" THEN LStrip(Tail(s)) ELSE s

RECURSIVE RStrip(_)
RStrip(s) == IF s # <<>> /\ s[Len(s)] = "ws" THEN RStrip(SubSeq(s, 1, Len(s) - 1)) ELSE s

\* output.strip().decode("utf-8").strip()
Strip(s) == RStrip(LStrip(s))

IsSuccess_contains_sentinel(line) == \E i \in 1..Len(line) : line[i] = "sentinel"

IsSuccess_accept_any_output(line) == line # <<>>

\* if output: txt = ...; if txt == "$$success$$"
IsSuccess(line) == line # <<>> /\ Strip(line) = SentinelText

BudgetExceeded_off_by_one(n) == n > MaxAttempts

\* if n_attemps>=40: raise RecursionError
BudgetExceeded(n) == n >= MaxAttempts

WritesJson_every_attempt(n) == TRUE

\* if n_attemps==1: json.dump(self.as_json(), f)
WritesJson(n) == n = 1

NudgeOf_first_is_default(n) == IF n = 1 THEN NudgeDefault ELSE n * NudgeStep

\* create_mesh_cache(pat, outpat, n_attemps*0.02), in hundredths
NudgeOf(n) == n * NudgeStep

\* What prepare.py prints on its first line.  When triangulate() kills the
\* process nothing is printed; the stub may also print other text.
SuccessLines == {<<"sentinel", "ws">>, <<"ws", "sentinel", "ws">>}
FailLines == {<<>>, <<"ws">>, <<"x", "ws">>, <<"sentinel", "x", "ws">>}

TriangulatorLines(i) == IF i = succeed_at THEN SuccessLines ELSE FailLines

(***************************************************************************)
(* Exact arithmetic on coordinates.  A number is <<n, d>> with d > 0 and   *)
(* gcd(n, d) = 1.                                                          *)
(***************************************************************************)
Abs(i) == IF i < 0 THEN -i ELSE i

RECURSIVE GCD(_, _)
GCD(a, b) == IF b = 0 THEN a ELSE GCD(b, a % b)

Sign(i) == IF i < 0 THEN -1 ELSE IF i > 0 THEN 1 ELSE 0

\* n/d in lowest terms (d # 0)
Q(n, d) ==
    LET g == GCD(Abs(n), Abs(d))
        s == Sign(d)
    IN  <<(s * n) \div g, (s * d) \div g>>

I(i) == <<i, 1>>

\* the operations reduce before they multiply, to keep the integers small
RAdd(a, b) ==
    LET g == GCD(a[2], b[2])
    IN  Q(a[1] * (b[2] \div g) + b[1] * (a[2] \div g), (a[2] \div g) * b[2])
RSub(a, b) == RAdd(a, <<-b[1], b[2]>>)
RMul(a, b) ==
    LET g1 == GCD(Abs(a[1]), b[2])
        g2 == GCD(Abs(b[1]), a[2])
    IN  Q((a[1] \div g1) * (b[1] \div g2), (a[2] \div g2) * (b[2] \div g1))
RDiv(a, b) == RMul(a, <<Sign(b[1]) * b[2], Abs(b[1])>>)
RNeg(a) == <<-a[1], a[2]>>
RAbs(a) == <<Abs(a[1]), a[2]>>
RLt(a, b) ==
    LET g == GCD(a[2], b[2])
    IN  a[1] * (b[2] \div g) < b[1] * (a[2] \div g)
RLe(a, b) ==
    LET g == GCD(a[2], b[2])
    IN  a[1] * (b[2] \div g) <= b[1] * (a[2] \div g)
RMin(a, b) == IF RLt(b, a) THEN b ELSE a
RMax(a, b) == IF RLt(a, b) THEN b ELSE a
RIsZero(a) == a[1] = 0

\* round(x, ndigits) for ndigits decimals given as scale = 10^ndigits:
\* nearest multiple of 1/scale, ties to even (the whole part is scaled apart
\* from the fraction, to keep the integers small)
RRound(a, scale) ==
    LET d == a[2]
        whole == a[1] \div d
        part == (a[1] % d) * scale
        f == whole * scale + part \div d
        r == part % d
        up == (2 * r > d) \/ (2 * r = d /\ f % 2 = 1)
    IN  Q(IF up THEN f + 1 ELSE f, scale)

(***************************************************************************)
(* Point (point.py)                                                        *)
(***************************************************************************)
Point(x, y) == [x |-> x, y |-> y]
Pt(i, j) == Point(I(i), I(j))

\* Point.__add__, __sub__, __mul__, __neg__, __round__
PointAdd(p, o) == Point(RAdd(p.x, o.x), RAdd(p.y, o.y))
PointSub(p, o) == Point(RSub(p.x, o.x), RSub(p.y, o.y))
PointMul(p, o) == Point(RMul(p.x, o.x), RMul(p.y, o.y))
PointNeg(p) == Point(RNeg(p.x), RNeg(p.y))
PointRound(p, scale) == Point(RRound(p.x, scale), RRound(p.y, scale))

\* functions.pointOnLine(start, end, t)
pointOnLine(start, end, t) ==
    LET u == RSub(I(1), t)
    IN  Point(RAdd(RMul(u, start.x), RMul(t, end.x)),
              RAdd(RMul(u, start.y), RMul(t, end.y)))

\* functions.pointOnQuadCurve(start, middle, end, t)
pointOnQuadCurve(start, middle, end, t) ==
    LET u == RSub(I(1), t)
        c0 == RMul(u, u)
        c1 == RMul(RSub(I(2), RMul(I(2), t)), t)
        c2 == RMul(t, t)
    IN  Point(RAdd(RAdd(RMul(c0, start.x), RMul(c1, middle.x)), RMul(c2, end.x)),
              RAdd(RAdd(RMul(c0, start.y), RMul(c1, middle.y)), RMul(c2, end.y)))

\* functions.reflection_of_point(p_0, q_i, q_j); the caller guarantees q_i # q_j
reflection_of_point(p, qi, qj) ==
    LET a == RSub(qi.y, qj.y)
        b == RSub(qj.x, qi.x)
        c == RNeg(RAdd(RMul(a, qi.x), RMul(b, qi.y)))
        aa == RMul(a, a)
        bb == RMul(b, b)
        ab2 == RMul(I(-2), RMul(a, b))
        den == RAdd(aa, bb)
        mx == RAdd(RMul(RSub(bb, aa), p.x), RMul(ab2, p.y))
        my == RAdd(RMul(ab2, p.x), RMul(RSub(aa, bb), p.y))
        c2 == RMul(I(2), c)
    IN  Point(RDiv(RSub(mx, RMul(c2, a)), den), RDiv(RSub(my, RMul(c2, b)), den))

\* squared euclidean distance; math.hypot(x1 - x2, y1 - y2) is its square root
Dist2(p, q) ==
    LET dx == RSub(p.x, q.x)
        dy == RSub(p.y, q.y)
    IN  RAdd(RMul(dx, dx), RMul(dy, dy))

(***************************************************************************)
(* Line and Curve (line.py).  freesewing_ID is <<>> for None and <<id>>    *)
(* for an id; endpoints is a Python list, <<>> until somebody sets it.     *)
(***************************************************************************)
NoID == <<>>
NoPc == Pt(0, 0)

\* Line.__init__
Line(p0, p1) ==
    [kind |-> "Line", p0 |-> p0, p1 |-> p1, pc |-> NoPc,
     endpoints |-> <<>>, freesewing_ID |-> NoID]

\* Curve.__init__
Curve(p0, p1, control) ==
    [kind |-> "Curve", p0 |-> p0, p1 |-> p1, pc |-> control,
     endpoints |-> <<>>, freesewing_ID |-> NoID]

IsCurve(e) == e.kind = "Curve"

Reverse(s) == [i \in 1..Len(s) |-> s[Len(s) + 1 - i]]

\* Line.swap_endpoints
swap_endpoints(e) == [e EXCEPT !.p0 = e.p1, !.p1 = e.p0, !.endpoints = Reverse(e.endpoints)]

\* Line.sample / Curve.sample: p0, the points at i/quality (0 < i < quality), p1
sample(e, quality) ==
    LET at(i) == IF IsCurve(e)
                   THEN pointOnQuadCurve(e.p0, e.pc, e.p1, Q(i, quality))
                   ELSE pointOnLine(e.p0, e.p1, Q(i, quality))
    IN  <<e.p0>> \o [i \in 1..(quality - 1) |-> at(i)] \o <<e.p1>>

(***************************************************************************)
(* Panel (panel.py)                                                        *)
(***************************************************************************)
NoErr == "None"
Res(p, e) == [panel |-> p, err |-> e]

Zero3 == <<I(0), I(0), I(0)>>

\* Panel.__init__
Panel(name) ==
    [name |-> name, translation |-> Zero3, rotation |-> Zero3,
     edges |-> <<>>, vertices |-> <<>>]

RECURSIVE subvertices(_)
\* subvertices += edge.sample(5), for every edge
subvertices(edges) ==
    IF edges = <<>> THEN <<>> ELSE sample(Head(edges), 5) \o subvertices(Tail(edges))

\* the smallest and the largest number of a non-empty set
RMinOf(S) == CHOOSE v \in S : \A w \in S : RLe(v, w)
RMaxOf(S) == CHOOSE v \in S : \A w \in S : RLe(w, v)

\* minimum = Point(0,0); maximum = Point(0,0)
BBoxSeed(self) == Pt(0, 0)

\* the loop of get_bbox: the running minimum and maximum, coordinate by
\* coordinate, over the seed and every sampled point
BBoxOf(pts) ==
    <<Point(RMinOf({pts[i].x : i \in 1..Len(pts)}), RMinOf({pts[i].y : i \in 1..Len(pts)})),
      Point(RMaxOf({pts[i].x : i \in 1..Len(pts)}), RMaxOf({pts[i].y : i \in 1..Len(pts)}))>>

\* Panel.get_bbox: <<minimum, maximum>>
get_bbox(self) == BBoxOf(<<BBoxSeed(self)>> \o subvertices(self.edges))

\* Point(width/2, height/2) + mini, rounded to 4 decimals, where mini is
\* bbox[1] and maxi is bbox[2]
CenterOf(bbox) ==
    PointRound(PointAdd(Point(RDiv(RAbs(RSub(bbox[2].x, bbox[1].x)), I(2)),
                              RDiv(RAbs(RSub(bbox[2].y, bbox[1].y)), I(2))), bbox[1]), 10000)

\* Panel.center
center(self) == CenterOf(get_bbox(self))

\* Panel.offset_in_cartesian, Panel.offset_in_svg
offset_in_cartesian(self) == PointNeg(center(self))
offset_in_svg(self) == PointNeg(get_bbox(self)[1])

\* Panel.move
move(self, offset) ==
    [self EXCEPT
       !.vertices = [i \in 1..Len(self.vertices) |-> PointAdd(self.vertices[i], offset)],
       !.edges = [i \in 1..Len(self.edges) |->
                    LET e == self.edges[i]
                    IN  [e EXCEPT !.p0 = PointAdd(e.p0, offset),
                                  !.p1 = PointAdd(e.p1, offset),
                                  !.pc = IF IsCurve(e) THEN PointAdd(e.pc, offset) ELSE e.pc]]]

\* Panel.scale
scale(self, factor) ==
    [self EXCEPT
       !.vertices = [i \in 1..Len(self.vertices) |-> PointMul(self.vertices[i], factor)],
       !.edges = [i \in 1..Len(self.edges) |->
                    LET e == self.edges[i]
                    IN  [e EXCEPT !.p0 = PointMul(e.p0, factor),
                                  !.p1 = PointMul(e.p1, factor),
                                  !.pc = IF IsCurve(e) THEN PointMul(e.pc, factor) ELSE e.pc]]]

\* edge.endpoints = [index, index+1]; self.edges[-1].endpoints[1] = 0
\* (i is the 1-based position, the stored indices are 0-based)
LastEndpoint(i, n) == IF i = n THEN 0 ELSE i

\* Panel.remake_vertices (the edge list is not empty)
remake_vertices(self) ==
    [self EXCEPT
       !.edges = [i \in 1..Len(self.edges) |->
                    [self.edges[i] EXCEPT !.endpoints = <<i - 1, LastEndpoint(i, Len(self.edges))>>]],
       !.vertices = [i \in 1..Len(self.edges) |-> self.edges[i].p0]]

\* distance = abs(edge.p0.x - origin[0]) + abs(edge.p0.y - origin[1])
Manhattan(p, origin) == RAdd(RAbs(RSub(p.x, origin.x)), RAbs(RSub(p.y, origin.y)))

shiftValue_last_minimum(edges, origin) ==
    CHOOSE i \in 1..Len(edges) :
        \A j \in 1..Len(edges) :
            /\ (j < i => RLe(Manhattan(edges[i].p0, origin), Manhattan(edges[j].p0, origin)))
            /\ (j > i => RLt(Manhattan(edges[i].p0, origin), Manhattan(edges[j].p0, origin)))

\* the loop of order_edges keeps the first index whose distance is strictly
\* smaller than every earlier one (1-based here)
shiftValue(edges, origin) ==
    CHOOSE i \in 1..Len(edges) :
        \A j \in 1..Len(edges) :
            /\ (j < i => RLt(Manhattan(edges[i].p0, origin), Manhattan(edges[j].p0, origin)))
            /\ (j > i => RLe(Manhattan(edges[i].p0, origin), Manhattan(edges[j].p0, origin)))

RECURSIVE calculus(_)
\* calculus += (edge.p1.x - edge.p0.x)*(edge.p1.y + edge.p0.y)
calculus(edges) ==
    IF edges = <<>> THEN I(0)
    ELSE LET e == Head(edges)
         IN  RAdd(RMul(RSub(e.p1.x, e.p0.x), RAdd(e.p1.y, e.p0.y)), calculus(Tail(edges)))

isClockWise_inverted(edges) == RLt(calculus(edges), I(0))

\* isClockWise = calculus > 0
isClockWise(edges) == RLt(I(0), calculus(edges))

\* x = collections.deque(self.edges); x.rotate(-shiftValue)
RotateLeft(edges, k) == SubSeq(edges, k, Len(edges)) \o SubSeq(edges, 1, k - 1)

ReverseEdges_no_swap(edges) == Reverse(edges)

\* self.edges.reverse(); for edge in self.edges: edge.swap_endpoints()
ReverseEdges(edges) == [i \in 1..Len(edges) |-> swap_endpoints(edges[Len(edges) + 1 - i])]

\* Panel.order_edges (the edge list is not empty)
order_edges(self, origin) ==
    LET rotated == RotateLeft(self.edges, shiftValue(self.edges, origin))
        ordered == IF isClockWise(self.edges) THEN ReverseEdges(rotated) ELSE rotated
    IN  remake_vertices([self EXCEPT !.edges = ordered])

\* Panel.normalize_edge_order
normalize_edge_order(self) == order_edges(self, get_bbox(self)[1])

\* Curve.as_line: a new Line(p0, p1)
as_line(e) == Line(e.p0, e.p1)

\* the control point lies on the chord, between its ends: every sample is on
\* the chord and the sampled length equals the chord length
IsStraight(e) ==
    LET ux == RSub(e.p1.x, e.p0.x)
        uy == RSub(e.p1.y, e.p0.y)
        vx == RSub(e.pc.x, e.p0.x)
        vy == RSub(e.pc.y, e.p0.y)
        dot == RAdd(RMul(ux, vx), RMul(uy, vy))
    IN  /\ RSub(RMul(ux, vy), RMul(uy, vx)) = I(0)
        /\ RLe(I(0), dot)
        /\ RLe(dot, RAdd(RMul(ux, ux), RMul(uy, uy)))

\* diff = edge.as_line().length / edge.length; round(diff,3) >= treshold.
\* edge.length sums 20 square roots in floating point; the test is decided
\* here where its result is certain (treshold <= 0: always; treshold > 1:
\* never; a straight curve has diff = 1) and is left open otherwise.
StraightenOutcomes(e, treshold) ==
    IF RLe(treshold, I(0)) THEN {TRUE}
    ELSE IF RLt(I(1), treshold) THEN {FALSE}
    ELSE IF IsStraight(e) THEN {TRUE}
    ELSE {TRUE, FALSE}

\* the edge's sampled length is 0: the division raises ZeroDivisionError
ZeroLength(e) == e.p0 = e.p1 /\ e.pc = e.p0

\* self.edges[i] = edge.as_line()
ConvertCurve(e) == as_line(e)

RECURSIVE StraightenLoop(_, _, _, _)
\* the for loop of straighten_curves from 1-based position i on; conv is the
\* set of positions whose test came out true
StraightenLoop(edges, i, treshold, conv) ==
    IF i > Len(edges) THEN [edges |-> edges, err |-> NoErr]
    ELSE IF ~IsCurve(edges[i]) THEN StraightenLoop(edges, i + 1, treshold, conv)
    ELSE IF ZeroLength(edges[i]) THEN [edges |-> edges, err |-> "ZeroDivisionError"]
    ELSE IF i \in conv
           THEN StraightenLoop([edges EXCEPT ![i] = ConvertCurve(edges[i])], i + 1, treshold, conv)
           ELSE StraightenLoop(edges, i + 1, treshold, conv)

\* the sets of positions straighten_curves(treshold) may convert
StraightenChoices(self, treshold) ==
    LET curves == {i \in 1..Len(self.edges) : IsCurve(self.edges[i])}
    IN  {conv \in SUBSET curves :
            \A i \in curves : (i \in conv) \in StraightenOutcomes(self.edges[i], treshold)}

\* the panel a loop over self.edges leaves behind when it ended with r
WithEdges(self, r) == Res([self EXCEPT !.edges = r.edges], r.err)

\* Panel.straighten_curves (no remake_vertices here)
straighten_curves(self, treshold, conv) ==
    WithEdges(self, StraightenLoop(self.edges, 1, treshold, conv))

\* dist(p0, n1) / (dist(p0, p1) + dist(p1, n1)) >= treshold, on the squared
\* distances a2, b2, c2 (b2 + c2 > 0)
RatioAtLeast(a2, b2, c2, treshold) ==
    IF RLe(treshold, I(0)) THEN TRUE
    ELSE LET t2 == RMul(treshold, treshold)
             l == RSub(a2, RMul(t2, RAdd(b2, c2)))
         IN  /\ RLe(I(0), l)
             /\ RLe(RMul(RMul(I(4), RMul(t2, t2)), RMul(b2, c2)), RMul(l, l))

RemoveAt(s, i) == SubSeq(s, 1, i - 1) \o SubSeq(s, i + 1, Len(s))

MinID(a, b) == IF b[1] < a[1] THEN b ELSE a

RECURSIVE UnsplitLoop(_, _, _)
\* the for loop of unsplit_lines over the list it mutates; i is the 0-based
\* index of enumerate()
UnsplitLoop(edges, i, treshold) ==
    IF i >= Len(edges) THEN [edges |-> edges, err |-> NoErr]
    ELSE IF IsCurve(edges[i + 1]) THEN UnsplitLoop(edges, i + 1, treshold)
    ELSE IF i >= Len(edges) - 1 THEN [edges |-> edges, err |-> NoErr]
    ELSE LET edge == edges[i + 1]
             next_edge == edges[i + 2]
             a2 == Dist2(edge.p0, next_edge.p1)
             b2 == Dist2(edge.p0, edge.p1)
             c2 == Dist2(edge.p1, next_edge.p1)
         IN  IF RIsZero(b2) /\ RIsZero(c2)
               THEN [edges |-> edges, err |-> "ZeroDivisionError"]
             ELSE IF RatioAtLeast(a2, b2, c2, treshold)
               THEN LET popped == RemoveAt(edges, i + 2)
                    IN  IF next_edge.freesewing_ID # NoID /\ edge.freesewing_ID = NoID
                          THEN [edges |-> popped, err |-> "TypeError"]
                          ELSE LET merged ==
                                     [edge EXCEPT
                                        !.freesewing_ID =
                                            IF next_edge.freesewing_ID # NoID
                                              THEN MinID(edge.freesewing_ID, next_edge.freesewing_ID)
                                              ELSE edge.freesewing_ID,
                                        !.p1 = next_edge.p1]
                               IN  UnsplitLoop([popped EXCEPT ![i + 1] = merged],
                                               i + 1, treshold)
             ELSE UnsplitLoop(edges, i + 1, treshold)

\* self.remake_vertices() after the loop of unsplit_lines ended with r
AfterUnsplitLoop(self, r) ==
    IF r.err # NoErr THEN WithEdges(self, r)
    ELSE IF r.edges = <<>> THEN Res(self, "IndexError")
    ELSE Res(remake_vertices([self EXCEPT !.edges = r.edges]), NoErr)

\* Panel.unsplit_lines
unsplit_lines(self, treshold) ==
    AfterUnsplitLoop(self, UnsplitLoop(self.edges, 0, treshold))

MirrorID_kept(id) == id

\* if e.freesewing_ID is not None: e.freesewing_ID = -e.freesewing_ID
MirrorID(id) == IF id = NoID THEN NoID ELSE <<-id[1]>>

\* the body of the loop over mirrored_edges in unfold
Mirror(e, sym) ==
    [e EXCEPT !.p0 = reflection_of_point(e.p0, sym.p0, sym.p1),
              !.p1 = reflection_of_point(e.p1, sym.p0, sym.p1),
              !.pc = IF IsCurve(e) THEN reflection_of_point(e.pc, sym.p0, sym.p1) ELSE e.pc,
              !.freesewing_ID = MirrorID(e.freesewing_ID)]

\* self.move(self.offset_in_cartesian)
Recenter(self) == move(self, offset_in_cartesian(self))

AppendMirrored_replace(edges, sym) ==
    ReverseEdges([i \in 1..Len(edges) |-> Mirror(edges[i], sym)])

\* mirrored_edges.reverse(); swap_endpoints on each; self.edges += mirrored_edges
AppendMirrored(edges, sym) ==
    edges \o ReverseEdges([i \in 1..Len(edges) |-> Mirror(edges[i], sym)])

\* the second half of unfold: ordered is the panel after order_edges, sym
\* the popped edge; mirroring across a zero-length edge divides by zero
\* inside numpy and leaves nan coordinates
UnfoldMirror(ordered, sym) ==
    IF sym.p0 = sym.p1 THEN Res(ordered, "nan")
    ELSE Res(normalize_edge_order(Recenter(remake_vertices(
                 [ordered EXCEPT !.edges = AppendMirrored(ordered.edges, sym)]))), NoErr)

\* unfold after self.edges.pop(edge_index) gave sym: popped is the panel
\* without that edge
UnfoldAlong(popped, sym) ==
    IF popped.edges = <<>> THEN Res(popped, "UnboundLocalError")
    ELSE UnfoldMirror(order_edges(popped, sym.p1), sym)

\* self.edges.pop(edge_index), k the 1-based position
UnfoldAt(self, k) ==
    IF k < 1 \/ k > Len(self.edges) THEN Res(self, "IndexError")
    ELSE UnfoldAlong([self EXCEPT !.edges = RemoveAt(self.edges, k)], self.edges[k])

\* Panel.unfold; edge_index is a Python index
unfold(self, edge_index) ==
    UnfoldAt(self, IF edge_index < 0 THEN edge_index + Len(self.edges) + 1 ELSE edge_index + 1)

(***************************************************************************)
(* Pattern (pattern.py): panels is the list Pattern.panels, a stitch is    *)
(* the two-element list [{"panel", "edge"}, {"panel", "edge"}].            *)
(***************************************************************************)
\* Pattern.panel_order
panel_order(ps) == [i \in 1..Len(ps) |-> ps[i].name]

\* list.index(x) as a 1-based position; 0 where Python raises ValueError
IndexOf(s, x) ==
    IF \E i \in 1..Len(s) : s[i] = x
      THEN CHOOSE i \in 1..Len(s) : s[i] = x /\ \A j \in 1..(i - 1) : s[j] # x
      ELSE 0

\* The arguments of remove_panels: a panel name (str), a Panel instance (at
\* is its position in Pattern.panels, 0 for an instance that is not in the
\* pattern), or a value of another type.
NameArg(name) == [kind |-> "str", name |-> name, at |-> 0]
PanelArg(ps, at) == [kind |-> "Panel", name |-> ps[at].name, at |-> at]
ForeignPanelArg(name) == [kind |-> "Panel", name |-> name, at |-> 0]
OtherArg == [kind |-> "int", name |-> "", at |-> 0]

RECURSIVE SelectLoop(_, _, _)
\* the loop "for a in args" of remove_panels: the names of selected_panels
SelectLoop(args, ps, selected) ==
    IF args = <<>> THEN [names |-> selected, err |-> NoErr]
    ELSE LET a == Head(args)
         IN  IF a.kind = "Panel"
               THEN SelectLoop(Tail(args), ps,
                               IF a.at # 0 THEN Append(selected, ps[a.at].name) ELSE selected)
             ELSE IF a.kind = "str"
               THEN LET at == IndexOf(panel_order(ps), a.name)
                    IN  IF at = 0 THEN [names |-> selected, err |-> "ValueError"]
                        ELSE SelectLoop(Tail(args), ps, Append(selected, ps[at].name))
             ELSE [names |-> selected, err |-> "TypeError"]

Range(s) == {s[i] : i \in 1..Len(s)}

KeepsStitch_first_side_only(stitch, names) == stitch[1].panel \notin Range(names)

\* not any([(x["panel"] in selected_panels_names) for x in stitch])
KeepsStitch(stitch, names) == \A side \in 1..2 : stitch[side].panel \notin Range(names)

KeptStitches_keep_all(st, names) == st

\* new_stitches
KeptStitches(st, names) == SelectSeq(st, LAMBDA stitch : KeepsStitch(stitch, names))

RECURSIVE PopLoop(_, _)
\* for name in selected_panels_names: self.panels.pop(self.panel_order.index(name))
PopLoop(ps, names) ==
    IF names = <<>> THEN [panels |-> ps, err |-> NoErr]
    ELSE LET at == IndexOf(panel_order(ps), Head(names))
         IN  IF at = 0 THEN [panels |-> ps, err |-> "ValueError"]
             ELSE PopLoop(RemoveAt(ps, at), Tail(names))

\* Pattern.remove_panels: what it leaves in panels and stitches
remove_panels(ps, st, args) ==
    LET sel == SelectLoop(args, ps, <<>>)
    IN  IF sel.err # NoErr THEN [panels |-> ps, stitches |-> st, err |-> sel.err]
        ELSE LET popped == PopLoop(ps, sel.names)
             IN  IF popped.err # NoErr
                   THEN [panels |-> popped.panels, stitches |-> st, err |-> popped.err]
                   ELSE [panels |-> popped.panels, stitches |-> KeptStitches(st, sel.names),
                         err |-> NoErr]

Stitch(panel_a, edge_a, panel_b, edge_b) ==
    <<[panel |-> panel_a, edge |-> edge_a], [panel |-> panel_b, edge |-> edge_b]>>

\* Pattern.add_stitch
add_stitch(st, panel_a, edge_a, panel_b, edge_b) ==
    LET stitch == Stitch(panel_a, edge_a, panel_b, edge_b)
    IN  IF stitch \notin Range(st) THEN Append(st, stitch) ELSE st

(***************************************************************************)
(* State machine of one Panel: an outline as Panel.from_svg builds it,     *)
(* then calls of its methods.  A call that raises ends the run.            *)
(***************************************************************************)
MaxPanelOps == 2
MaxUnfoldEdges == 6

NoControls(n) == [k \in 1..n |-> <<>>]
NoIDs(n) == [k \in 1..n |-> NoID]

\* segment k of a closed outline: from corner k to the next corner, a Curve
\* when controls[k] holds a control point
OutlineEdge(pts, controls, ids, k) ==
    LET p0 == pts[k]
        p1 == pts[(k % Len(pts)) + 1]
        e == IF controls[k] = <<>> THEN Line(p0, p1) ELSE Curve(p0, p1, controls[k][1])
    IN  [e EXCEPT !.freesewing_ID = ids[k]]

\* the loop of Panel.from_svg: one edge per segment with endpoints
\* [index, index+1], the last one back to 0, and one vertex per start point
PanelOf(name, pts, controls, ids) ==
    remake_vertices([Panel(name) EXCEPT
                       !.edges = [k \in 1..Len(pts) |-> OutlineEdge(pts, controls, ids, k)]])

Square == PanelOf("square", <<Pt(0,0), Pt(4,0), Pt(4,4), Pt(0,4)>>, NoControls(4), NoIDs(4))
SquareClockwise ==
    PanelOf("square_cw", <<Pt(4,4), Pt(4,0), Pt(0,0), Pt(0,4)>>, NoControls(4), NoIDs(4))
\* (2,0) and (0,2) are equally near the bounding-box corner (0,0)
Diamond == PanelOf("diamond", <<Pt(2,4), Pt(0,2), Pt(2,0), Pt(4,2)>>, NoControls(4), NoIDs(4))
DiamondClockwise ==
    PanelOf("diamond_cw", <<Pt(2,4), Pt(4,2), Pt(2,0), Pt(0,2)>>, NoControls(4), NoIDs(4))
\* a quarter disc: its curve bulges out of the triangle of its corners
Quarter ==
    PanelOf("quarter", <<Pt(0,0), Pt(4,0), Pt(0,4)>>, <<<<>>, <<Pt(4,4)>>, <<>>>>, NoIDs(3))
\* the quarter disc as a design makes it: every edge carries a provenance id
QuarterTagged ==
    PanelOf("quarter_tagged", <<Pt(0,0), Pt(4,0), Pt(0,4)>>, <<<<>>, <<Pt(4,4)>>, <<>>>>,
            <<<<1>>, <<2>>, <<3>>>>)
\* a curve whose control point is on its chord
FlatCurve ==
    PanelOf("flat", <<Pt(0,0), Pt(4,0), Pt(4,2)>>, <<<<Pt(2,0)>>, <<>>, <<>>>>, NoIDs(3))
\* a rectangle whose bottom side is split in two collinear lines
Split ==
    PanelOf("split", <<Pt(0,0), Pt(2,0), Pt(4,0), Pt(4,2), Pt(0,2)>>, NoControls(5), NoIDs(5))
SplitTagged ==
    PanelOf("split_tagged", <<Pt(0,2), Pt(0,0), Pt(2,0), Pt(4,0), Pt(4,2)>>, NoControls(5),
            <<<<5>>, <<1>>, <<2>>, <<3>>, <<4>>>>)
\* only some edges carry a provenance id
SplitHalfTagged ==
    PanelOf("split_half_tagged", <<Pt(0,0), Pt(2,0), Pt(4,0), Pt(4,2), Pt(0,2)>>, NoControls(5),
            <<NoID, <<2>>, <<3>>, NoID, NoID>>)
\* a panel that does not touch the origin
Away ==
    PanelOf("away", <<Pt(-1,-5), Pt(-1,-3), Pt(-3,-3), Pt(-3,-5)>>, NoControls(4), NoIDs(4))
\* half of a kite, to be unfolded on its slanted side
Half == PanelOf("half", <<Pt(0,0), Pt(3,0), Pt(0,3)>>, NoControls(3), <<<<1>>, <<2>>, NoID>>)

\* a triangle whose base is split in two collinear lines
SplitBase ==
    PanelOf("split_base", <<Pt(0,0), Pt(2,0), Pt(4,0), Pt(2,2)>>, NoControls(4), NoIDs(4))

PanelCatalogue ==
    {Square, SquareClockwise, Diamond, DiamondClockwise, Quarter, QuarterTagged, FlatCurve,
     Split, SplitTagged, SplitHalfTagged, Away, Half, SplitBase}

Origins == {Pt(0, 0), Pt(4, 4), Pt(2, 0)}
StraightenTresholds == {I(0), I(1)}
UnsplitTresholds == {I(0), Q(1, 2), I(1)}
Offsets(p) == {Pt(1, -2), offset_in_cartesian(p), offset_in_svg(p)}
Factors == {Pt(1, -1), Pt(2, 1)}

IdlePanel ==
    /\ panel = Panel("panel")
    /\ panel_ops = <<>>
    /\ panel_err = NoErr

\* no call has been made on the pattern yet
NoCall == [op |-> "None", args |-> <<>>, err |-> NoErr, n |-> 0]

IdlePattern ==
    /\ panels = <<>>
    /\ stitches = <<>>
    /\ call = NoCall

\* no function has been called
NoTask == [op |-> "None"]
NoOutcome == [err |-> "NotCalled"]

IdleCall ==
    /\ task = NoTask
    /\ outcome = NoOutcome

\* no pattern was built yet
NoPattern == [panels |-> <<>>, stitches |-> 0]
NoEdit == [target |-> "None", op |-> "None", err |-> NoErr, n |-> 0]

IdleCopy ==
    /\ pattern_p = NoPattern
    /\ pattern_q = NoPattern
    /\ heap = <<>>
    /\ edit = NoEdit

IdleMesh ==
    /\ pc = "idle"
    /\ n_attemps = 0
    /\ invocations = 0
    /\ json_writes = 0
    /\ json_read = 0
    /\ nudge = 0
    /\ output = <<>>
    /\ pickle_file = 0
    /\ result = NoResult
    /\ succeed_at = 0

InitPanel ==
    /\ panel \in PanelCatalogue
    /\ panel_ops = <<>>
    /\ panel_err = NoErr
    /\ IdleMesh
    /\ IdlePattern
    /\ IdleCopy
    /\ IdleCall

\* one method call on the panel: what it leaves behind and how it ended
PanelCall(method, res) ==
    /\ panel_err = NoErr
    /\ Len(panel_ops) < MaxPanelOps
    /\ panel' = res.panel
    /\ panel_ops' = Append(panel_ops, method)
    /\ panel_err' = res.err
    /\ UNCHANGED <<meshVars, patternVars, callVars, copyVars>>

OrderEdges ==
    \E origin \in Origins : PanelCall("order_edges", Res(order_edges(panel, origin), NoErr))

NormalizeEdgeOrder ==
    PanelCall("normalize_edge_order", Res(normalize_edge_order(panel), NoErr))

StraightenCurves ==
    \E treshold \in StraightenTresholds :
        \E conv \in StraightenChoices(panel, treshold) :
            PanelCall("straighten_curves", straighten_curves(panel, treshold, conv))

UnsplitLines ==
    \E treshold \in UnsplitTresholds :
        PanelCall("unsplit_lines", unsplit_lines(panel, treshold))

Unfold ==
    /\ Len(panel.edges) <= MaxUnfoldEdges
    /\ \E edge_index \in -1..Len(panel.edges) :
          PanelCall("unfold", unfold(panel, edge_index))

Move ==
    \E offset \in Offsets(panel) : PanelCall("move", Res(move(panel, offset), NoErr))

Scale ==
    \E factor \in Factors : PanelCall("scale", Res(scale(panel, factor), NoErr))

RemakeVertices ==
    PanelCall("remake_vertices", Res(remake_vertices(panel), NoErr))

NextPanel ==
    \/ OrderEdges
    \/ NormalizeEdgeOrder
    \/ StraightenCurves
    \/ UnsplitLines
    \/ Unfold
    \/ Move
    \/ Scale
    \/ RemakeVertices

(*SECTION*)
(***************************************************************************)
(* State machine of one Pattern: built by Pattern.from_json, then calls of *)
(* add_stitch and remove_panels and edits of its panels' edge lists.       *)
(***************************************************************************)
MaxPatternOps == 2
MaxStitches == 2

\* the stitch list of the interchange file the pattern was read from
LoadedStitches ==
    <<Stitch("split", 0, "square", 0), Stitch("half", 0, "split", 1),
      Stitch("square", 1, "half", 2), Stitch("split", 2, "split", 4)>>

\* what the callers pass to add_stitch: references that resolve, a panel
\* name the pattern does not have, an edge index no panel has
StitchArgs ==
    {<<"split", 0, "square", 0>>, <<"split", 4, "square", 3>>, <<"half", 0, "split", 1>>,
     <<"split", 0, "ghost", 0>>, <<"square", 7, "half", 0>>}

\* what the callers pass to remove_panels
RemoveArgs(ps) ==
    {<<NameArg("split")>>, <<NameArg("square")>>, <<NameArg("ghost")>>,
     <<NameArg("split"), NameArg("square")>>, <<NameArg("half"), NameArg("half")>>,
     <<NameArg("square"), NameArg("ghost")>>, <<ForeignPanelArg("square")>>,
     <<ForeignPanelArg("split"), NameArg("half")>>, <<OtherArg>>,
     <<NameArg("split"), OtherArg>>}
    \cup {<<PanelArg(ps, at)>> : at \in 1..Len(ps)}
    \cup {<<PanelArg(ps, at), NameArg(ps[1].name)>> : at \in 1..Len(ps)}

InitPattern ==
    /\ panels \in {<<Split, Square, Half>>, <<Square, Split>>}
    /\ stitches \in {<<>>} \cup (IF Len(panels) = 3 THEN {LoadedStitches} ELSE {})
    /\ call = NoCall
    /\ IdleMesh
    /\ IdlePanel
    /\ IdleCall
    /\ IdleCopy

\* one method call on the pattern or on one of its panels
PatternCall(method, args, res) ==
    /\ call.err = NoErr
    /\ call.n < MaxPatternOps
    /\ panels' = res.panels
    /\ stitches' = res.stitches
    /\ call' = [op |-> method, args |-> args, err |-> res.err, n |-> call.n + 1]
    /\ UNCHANGED <<meshVars, panelVars, callVars, copyVars>>

AddStitch ==
    /\ Len(stitches) < MaxStitches
    /\ \E a \in StitchArgs :
          PatternCall("add_stitch", a,
                      [panels |-> panels,
                       stitches |-> add_stitch(stitches, a[1], a[2], a[3], a[4]),
                       err |-> NoErr])

RemovePanels ==
    \E args \in RemoveArgs(panels) :
        PatternCall("remove_panels", args, remove_panels(panels, stitches, args))

\* the pattern after a method of pattern.panels[at] ended with r
PanelResult(at, r) ==
    [panels |-> [panels EXCEPT ![at] = r.panel], stitches |-> stitches, err |-> r.err]

\* pattern.panels[at].unsplit_lines(treshold)
PanelUnsplitLines ==
    \E at \in 1..Len(panels), treshold \in {I(0), I(1)} :
        PatternCall("unsplit_lines", <<at>>,
                    PanelResult(at, unsplit_lines(panels[at], treshold)))

\* pattern.panels[at].unfold(edge_index)
PanelUnfold ==
    \E at \in 1..Len(panels) :
        /\ Len(panels[at].edges) <= MaxUnfoldEdges
        /\ \E edge_index \in {0, 1} :
              PatternCall("unfold", <<at>>, PanelResult(at, unfold(panels[at], edge_index)))

NextPattern == AddStitch \/ RemovePanels \/ PanelUnsplitLines \/ PanelUnfold

(***************************************************************************)
(* State machine of the retry loop                                         *)
(***************************************************************************)
InitMesh ==
    /\ pc = "idle"
    /\ n_attemps = 0
    /\ invocations = 0
    /\ json_writes = 0
    /\ json_read = 0
    /\ nudge = 0
    /\ output = <<>>
    /\ pickle_file = 0
    /\ result = NoResult
    /\ succeed_at \in 0..MaxSucceedAt
    /\ IdlePanel
    /\ IdlePattern
    /\ IdleCopy
    /\ IdleCall

\* Entry of one (recursive) call: count the attempt and give up at the budget.
EnterRaise ==
    /\ pc \in {"idle", "retry"}
    /\ BudgetExceeded(n_attemps + 1)
    /\ n_attemps' = n_attemps + 1
    /\ pc' = "raised"
    /\ UNCHANGED <<invocations, json_writes, json_read, nudge, output,
                   pickle_file, result, succeed_at>>
    /\ UNCHANGED <<panelVars, patternVars, callVars, copyVars>>

\* Entry of one (recursive) call below the budget: write the json on the
\* first attempt only, then build cmd_args.
EnterSpawn ==
    /\ pc \in {"idle", "retry"}
    /\ ~BudgetExceeded(n_attemps + 1)
    /\ n_attemps' = n_attemps + 1
    /\ json_writes' = IF WritesJson(n_attemps + 1) THEN json_writes + 1 ELSE json_writes
    /\ pc' = "spawn"
    /\ UNCHANGED <<invocations, json_read, nudge, output, pickle_file,
                   result, succeed_at>>
    /\ UNCHANGED <<panelVars, patternVars, callVars, copyVars>>

\* The subprocess runs prepare.py with argv (n_attemps, json, pickle); the
\* parent reads its first line and either returns or recurses.
Invoke ==
    /\ pc = "spawn"
    /\ invocations' = invocations + 1
    /\ json_read' = json_writes
    /\ nudge' = NudgeOf(n_attemps)
    /\ \E line \in TriangulatorLines(invocations + 1) :
          /\ output' = line
          /\ pickle_file' = IF line \in SuccessLines THEN invocations + 1 ELSE pickle_file
          /\ IF IsSuccess(line)
               THEN /\ pc' = "done"
                    /\ result' = [mesh |-> pickle_file', n_attemps |-> n_attemps]
               ELSE /\ pc' = "retry"
                    /\ result' = result
    /\ UNCHANGED <<n_attemps, json_writes, succeed_at>>
    /\ UNCHANGED <<panelVars, patternVars, callVars, copyVars>>

NextMesh == EnterRaise \/ EnterSpawn \/ Invoke

SpecMesh == InitMesh /\ [][NextMesh]_vars

SpecPanel == InitPanel /\ [][NextPanel]_vars

SpecPattern == InitPattern /\ [][NextPattern]_vars

(***************************************************************************)
(* Functions that keep no state between calls: the task names the function *)
(* and its arguments, the outcome is what one call of it returns or raises. *)
(***************************************************************************)

\* one segment of a parsed svg path (svg.path): start, end and, for a
\* quadratic curve, its control point
Segment(kind, start, end, control) ==
    [kind |-> kind, start |-> start, end |-> end, control |-> control]

\* p.boundingbox()[0:2] as svg.path computes it; for the paths used here the
\* control points lie inside the box of the end points
BoundingBoxMin(path) ==
    Point(RMinOf({path[i].start.x : i \in 1..Len(path)} \cup {path[i].end.x : i \in 1..Len(path)}),
          RMinOf({path[i].start.y : i \in 1..Len(path)} \cup {path[i].end.y : i \in 1..Len(path)}))

\* Curve(start, end, control) for a QuadraticBezier, Line(start, end) for
\* every other segment; edge.endpoints = [index, index+1]
SvgEdge(segment, minimum, index) ==
    [(IF segment.kind = "QuadraticBezier"
        THEN Curve(PointSub(segment.start, minimum), PointSub(segment.end, minimum),
                   PointSub(segment.control, minimum))
        ELSE Line(PointSub(segment.start, minimum), PointSub(segment.end, minimum)))
     EXCEPT !.endpoints = <<index, index + 1>>]

\* the test whose branch raises RuntimeError("Cubic curves are not
\* supported."); it is reached by the segments that were not skipped
RejectsSegment(segment) == segment.kind = "CubicBezier"

RECURSIVE SvgLoop(_, _, _, _)
\* the loop "for segment in p" of Panel.from_svg
SvgLoop(path, minimum, self, index) ==
    IF path = <<>> THEN Res(self, NoErr)
    ELSE IF PointSub(Head(path).start, minimum) = PointSub(Head(path).end, minimum)
      THEN SvgLoop(Tail(path), minimum, self, index)
    ELSE IF RejectsSegment(Head(path)) THEN Res(self, "RuntimeError")
    ELSE SvgLoop(Tail(path), minimum,
                 [self EXCEPT !.edges = Append(@, SvgEdge(Head(path), minimum, index)),
                              !.vertices = Append(@, PointSub(Head(path).start, minimum))],
                 index + 1)

\* panel.edges[-1].endpoints[1] = 0
CloseLastEdge(self) ==
    [self EXCEPT !.edges = [@ EXCEPT ![Len(@)] = [@ EXCEPT !.endpoints = <<@[1], 0>>]]]

\* Panel.from_svg after its loop ended with r
AfterSvgLoop(r) ==
    IF r.err # NoErr THEN r
    ELSE IF r.panel.edges = <<>> THEN Res(r.panel, "IndexError")
    ELSE Res(scale(Recenter(CloseLastEdge(r.panel)), Pt(1, -1)), NoErr)

\* Panel.from_svg
from_svg(path, name) ==
    AfterSvgLoop(SvgLoop(path, BoundingBoxMin(path), Panel(name), 0))

SegmentKinds == {"Line", "QuadraticBezier", "CubicBezier"}

\* a closed path over three corners; the control point of the segment from
\* a to b is a itself moved one third of the way to b
Towards(a, b) == PointAdd(a, PointMul(PointSub(b, a), Point(Q(1, 3), Q(1, 3))))
TrianglePath(a, b, c, kinds) ==
    <<Segment(kinds[1], a, b, Towards(a, b)), Segment(kinds[2], b, c, Towards(b, c)),
      Segment(kinds[3], c, a, Towards(c, a))>>

\* the same corners with one more segment that starts and ends at b
TrianglePathWithLoop(a, b, c, kinds, loopkind) ==
    <<Segment(kinds[1], a, b, Towards(a, b)), Segment(loopkind, b, b, Towards(b, c)),
      Segment(kinds[2], b, c, Towards(b, c)), Segment(kinds[3], c, a, Towards(c, a))>>

SvgCorners == {<<Pt(0, 0), Pt(6, 0), Pt(0, 3)>>, <<Pt(3, 9), Pt(9, 3), Pt(6, 12)>>}

SvgPaths ==
    {TrianglePath(t[1], t[2], t[3], k) : t \in SvgCorners, k \in [1..3 -> SegmentKinds]}
    \cup {TrianglePathWithLoop(t[1], t[2], t[3], <<"Line", "QuadraticBezier", "Line">>, l) :
            t \in SvgCorners, l \in SegmentKinds}
    \cup {<<Segment(l, Pt(3, 3), Pt(3, 3), Pt(6, 6))>> : l \in SegmentKinds}

SvgTasks == {[op |-> "from_svg", path |-> p, name |-> "panel"] : p \in SvgPaths}

FromSvg ==
    /\ task.op = "from_svg"
    /\ outcome = NoOutcome
    /\ outcome' = from_svg(task.path, task.name)
    /\ UNCHANGED <<task, meshVars, panelVars, patternVars, copyVars>>

\* Point.as_json: [round(x,5), round(y,5)]
PointAsJson(p) == PointRound(p, 100000)

\* functions.control_to_relative_coord(start, end, control_point): the
\* projection of control - start on the edge over the edge length squared,
\* and minus the cross product over the edge length squared (the signed
\* length of the perpendicular part over the edge length), both rounded to
\* 5 decimals; the edge is not of zero length
RelativeScale(ex, ey, cx, cy, len2) ==
    Point(RRound(RDiv(RAdd(RMul(ex, cx), RMul(ey, cy)), len2), 100000),
          RRound(RDiv(RNeg(RSub(RMul(cx, ey), RMul(cy, ex))), len2), 100000))
control_to_relative_coord(start, end, control_point) ==
    RelativeScale(RSub(end.x, start.x), RSub(end.y, start.y),
                  RSub(control_point.x, start.x), RSub(control_point.y, start.y),
                  Dist2(start, end))

\* functions.control_to_abs_coord(start, end, control_scale):
\* start + control_scale[0] * edge + control_scale[1] * edge_perp
control_to_abs_coord(start, end, control_scale) ==
    Point(RAdd(RAdd(start.x, RMul(control_scale.x, RSub(end.x, start.x))),
               RMul(control_scale.y, RNeg(RSub(end.y, start.y)))),
          RAdd(RAdd(start.y, RMul(control_scale.x, RSub(end.y, start.y))),
               RMul(control_scale.y, RSub(end.x, start.x))))

\* Curve.get_curvature and the rounding of Curve.as_json
get_curvature(e, relative) ==
    IF relative THEN control_to_relative_coord(e.p0, e.p1, e.pc) ELSE PointRound(e.pc, 100000)

\* Line.as_json / Curve.as_json; self.endpoints[0] of an empty list raises
\* IndexError. "curvature" is <<>> where the key is absent.
EdgeAsJson(e, relative) ==
    IF Len(e.endpoints) < 2 THEN [err |-> "IndexError"]
    ELSE [err |-> NoErr, endpoints |-> <<e.endpoints[1], e.endpoints[2]>>,
          curvature |-> IF IsCurve(e) THEN <<get_curvature(e, relative)>> ELSE <<>>]

\* Panel.as_json
PanelAsJson(self, relative) ==
    [translation |-> self.translation, rotation |-> self.rotation,
     vertices |-> [i \in 1..Len(self.vertices) |-> PointAsJson(self.vertices[i])],
     edges |-> [i \in 1..Len(self.edges) |-> EdgeAsJson(self.edges[i], relative)]]

\* a Python dict as the list of its items in insertion order: d[key] = value
DictPut(dict, key, value) ==
    IF \E i \in 1..Len(dict) : dict[i].key = key
      THEN [i \in 1..Len(dict) |-> IF dict[i].key = key THEN [key |-> key, value |-> value]
                                   ELSE dict[i]]
      ELSE Append(dict, [key |-> key, value |-> value])

RECURSIVE PanelsDict(_, _, _)
\* {p.name: p.as_json(curvature_is_relative) for p in self.panels}
PanelsDict(ps, relative, dict) ==
    IF ps = <<>> THEN dict
    ELSE PanelsDict(Tail(ps), relative, DictPut(dict, Head(ps).name, PanelAsJson(Head(ps), relative)))

\* an edge of one of the panels could not be written
AsJsonRaises(ps) ==
    \E i \in 1..Len(ps) : \E k \in 1..Len(ps[i].edges) : Len(ps[i].edges[k].endpoints) < 2

\* Pattern.as_json
PatternAsJson(ps, st, relative) ==
    IF AsJsonRaises(ps) THEN [err |-> "IndexError"]
    ELSE [err |-> NoErr,
          panels |-> PanelsDict(ps, relative, <<>>),
          stitches |-> st,
          panel_order |-> panel_order(ps),
          curvature_coords |-> IF relative THEN "relative" ELSE "absolute"]

\* a Python index into a list of n items as a 1-based position (0: IndexError)
ListIndex(i, n) == IF i >= 0 /\ i < n THEN i + 1 ELSE IF i < 0 /\ -i <= n THEN n + i + 1 ELSE 0

\* the body of the loop "for edge in data['edges']" of Panel.from_json
EdgeFromJson(edge, vertices, isRelative) ==
    [(IF edge.curvature # <<>>
        THEN Curve(vertices[ListIndex(edge.endpoints[1], Len(vertices))],
                   vertices[ListIndex(edge.endpoints[2], Len(vertices))],
                   IF isRelative
                     THEN control_to_abs_coord(vertices[ListIndex(edge.endpoints[1], Len(vertices))],
                                               vertices[ListIndex(edge.endpoints[2], Len(vertices))],
                                               edge.curvature[1])
                     ELSE edge.curvature[1])
        ELSE Line(vertices[ListIndex(edge.endpoints[1], Len(vertices))],
                  vertices[ListIndex(edge.endpoints[2], Len(vertices))]))
     EXCEPT !.endpoints = edge.endpoints]

\* panel.vertices[edge["endpoints"][k]] raises IndexError for some edge
PanelFromJsonRaises(data) ==
    \E k \in 1..Len(data.edges) :
        \/ ListIndex(data.edges[k].endpoints[1], Len(data.vertices)) = 0
        \/ ListIndex(data.edges[k].endpoints[2], Len(data.vertices)) = 0

\* Panel.from_json (data is well formed up to its indices)
PanelFromJson(data, name, isRelative) ==
    [name |-> name, translation |-> data.translation, rotation |-> data.rotation,
     vertices |-> data.vertices,
     edges |-> [k \in 1..Len(data.edges) |-> EdgeFromJson(data.edges[k], data.vertices, isRelative)]]

\* Pattern.from_json of a dict
PatternFromJson(data) ==
    IF \E i \in 1..Len(data.panels) : PanelFromJsonRaises(data.panels[i].value)
      THEN [err |-> "IndexError"]
      ELSE [err |-> NoErr,
            panels |-> [i \in 1..Len(data.panels) |->
                          PanelFromJson(data.panels[i].value, data.panels[i].key,
                                        data.curvature_coords = "relative")],
            stitches |-> data.stitches]

\* Pattern.from_json(pattern.as_json(curvature_is_relative))
RoundTrip(written) == IF written.err # NoErr THEN written ELSE PatternFromJson(written)

\* a triangle named like the square
SquareNamedTriangle == PanelOf("square", <<Pt(0,0), Pt(3,0), Pt(0,3)>>, NoControls(3), NoIDs(3))

RoundTripPatterns ==
    {<<Split, Square, Half>>, <<Square, Split>>, <<Quarter, FlatCurve>>, <<Away>>, <<>>,
     <<Square, SquareNamedTriangle>>, <<Split, Square, Split>>}

RoundTripStitches == {<<>>, <<Stitch("split", 0, "square", 0)>>, LoadedStitches}

RoundTripTasks ==
    {[op |-> "round_trip", panels |-> ps, stitches |-> st, relative |-> r] :
        ps \in RoundTripPatterns, st \in RoundTripStitches, r \in BOOLEAN}

\* Pattern.from_json(p.as_json(relative))
JsonRoundTrip ==
    /\ task.op = "round_trip"
    /\ outcome = NoOutcome
    /\ outcome' = RoundTrip(PatternAsJson(task.panels, task.stitches, task.relative))
    /\ UNCHANGED <<task, meshVars, panelVars, patternVars, copyVars>>

\* [e for e in panel.edges if e.freesewing_ID == id], each edge given by
\* panel.edges.index(e): Line defines no __eq__, so that is its own position
EdgesWithID(edges, id) ==
    SelectSeq([i \in 1..Len(edges) |-> i - 1], LAMBDA i : edges[i + 1].freesewing_ID = <<id>>)

CountsDiffer_never(a_s, b_s) == FALSE

\* if len(a_s) != len(b_s): raise RuntimeError
CountsDiffer(a_s, b_s) == Len(a_s) # Len(b_s)

\* for a_edge, b_edge in zip(a_s, b_s): the parsed stitches
ZipStitches(name_a, a_s, name_b, b_s) ==
    [k \in 1..(IF Len(a_s) < Len(b_s) THEN Len(a_s) ELSE Len(b_s)) |->
        Stitch(name_a, a_s[k], name_b, b_s[k])]

\* Pattern.get_panel(name): the first panel of that name (the name exists)
get_panel(ps, name) == ps[IndexOf(panel_order(ps), name)]

\* one turn of the loop of _map_stitches, the matching edges already found
MapOne(stitch, a_s, b_s, st) ==
    IF CountsDiffer(a_s, b_s) THEN [stitches |-> st, err |-> "RuntimeError"]
    ELSE [stitches |-> st \o ZipStitches(stitch[1][1], a_s, stitch[2][1], b_s), err |-> NoErr]

RECURSIVE MapLoop(_, _, _)
\* Design._map_stitches: the loop over self.stitches; r holds
\* self._pattern.stitches so far
MapLoop(design_stitches, ps, r) ==
    IF design_stitches = <<>> \/ r.err # NoErr THEN r
    ELSE MapLoop(Tail(design_stitches), ps,
                 MapOne(Head(design_stitches),
                        EdgesWithID(get_panel(ps, Head(design_stitches)[1][1]).edges,
                                    Head(design_stitches)[1][2]),
                        EdgesWithID(get_panel(ps, Head(design_stitches)[2][1]).edges,
                                    Head(design_stitches)[2][2]),
                        r.stitches))

\* Design._map_stitches
map_stitches(design_stitches, ps) == MapLoop(design_stitches, ps, [stitches |-> <<>>, err |-> NoErr])

\* two panels as _process_pattern leaves them: several edges may carry the
\* id of the curve they were cut from, some carry none
Front ==
    PanelOf("front", <<Pt(0,0), Pt(2,0), Pt(4,0), Pt(4,2), Pt(0,2)>>, NoControls(5),
            <<<<1>>, <<1>>, <<2>>, NoID, <<3>>>>)
Back ==
    PanelOf("back", <<Pt(0,0), Pt(4,0), Pt(4,2), Pt(2,2), Pt(0,2)>>, NoControls(5),
            <<<<2>>, <<3>>, <<-1>>, <<3>>, <<-1>>>>)

DesignSides == {<<n, id>> : n \in {"front", "back"}, id \in {1, 2, 3, -1}}
DesignStitches == {<<a, b>> : a \in DesignSides, b \in DesignSides}
DesignStitchLists ==
    {<<s>> : s \in DesignStitches}
    \cup {<<<<<<"front", 3>>, <<"back", 2>>>>, s>> : s \in DesignStitches}
    \cup {<<<<<<"front", 1>>, <<"back", -1>>>>, s>> : s \in DesignStitches}

MapStitchesTasks ==
    {[op |-> "_map_stitches", stitches |-> l, panels |-> <<Front, Back>>] : l \in DesignStitchLists}

MapStitches ==
    /\ task.op = "_map_stitches"
    /\ outcome = NoOutcome
    /\ outcome' = map_stitches(task.stitches, task.panels)
    /\ UNCHANGED <<task, meshVars, panelVars, patternVars, copyVars>>

(***************************************************************************)
(* create_mesh_cache (simulation/prepare.py).  The triangulator is the     *)
(* external library triangle; the model stands two triangulations in for   *)
(* it.  A mesh vertex is <<x, y, z>>, an index is 0-based as in Python.    *)
(***************************************************************************)
ISqrt(n) == CHOOSE r \in 0..n : r * r = n

\* math.hypot, on outlines whose sides have rational lengths
RSqrt(a) == Q(ISqrt(a[1]), ISqrt(a[2]))

\* Line.length
length(e) == RSqrt(Dist2(e.p0, e.p1))

\* a // b of two positive numbers, as an integer
FloorDiv(a, b) == (a[1] * b[2]) \div (a[2] * b[1])

AllEdges(ps) == UNION {{ps[i].edges[j] : j \in 1..Len(ps[i].edges)} : i \in 1..Len(ps)}

\* smallest_edge: the minimum of e.length over every panel, then /= 6
smallest_edge(ps) == RDiv(RMinOf({length(e) : e \in AllEdges(ps)}), I(6))

\* n = edge.length // smallest_edge
Subdivisions(e, unit) == FloorDiv(length(e), unit)

\* edge.subpoints = edge.sample(int(n))
subpoints(e, unit) == sample(e, Subdivisions(e, unit))

RECURSIVE ShapeVertices(_, _)
\* vertices += edge.subpoints, for every edge of the panel
ShapeVertices(edges, unit) ==
    IF edges = <<>> THEN <<>>
    ELSE subpoints(Head(edges), unit) \o ShapeVertices(Tail(edges), unit)

\* segments += [(i, i + 1) for i in range(0, len(vertices) - 1)]
ShapeSegments(vertices) == [i \in 1..(Len(vertices) - 1) |-> <<i - 1, i>>]

\* a point inside a convex outline
Middle(bbox) ==
    Point(RDiv(RAdd(bbox[1].x, bbox[2].x), I(2)), RDiv(RAdd(bbox[1].y, bbox[2].y), I(2)))

\* triangulate(shape, "pqa...e") adding one inner vertex: the input vertices
\* come first, every segment spans a triangle with the added vertex
TriangulateFan(vertices, c) ==
    [vertices |-> vertices \o <<Middle(BBoxOf(vertices))>>,
     segments |-> ShapeSegments(vertices),
     edges |-> ShapeSegments(vertices) \o [i \in 1..c |-> <<i - 1, c>>],
     triangles |-> [i \in 1..(c - 1) |-> <<i - 1, i, c>>]]

\* triangulate(shape, "pqa...e") adding no vertex: triangles around vertex 0
TriangulateEars(vertices, c) ==
    [vertices |-> vertices,
     segments |-> ShapeSegments(vertices),
     edges |-> ShapeSegments(vertices) \o [i \in 1..(c - 3) |-> <<0, i + 1>>],
     triangles |-> [i \in 1..(c - 2) |-> <<0, i, i + 1>>]]

Triangulations == {"fan", "ears"}

\* p.topology = triangulate(shape, ...)
triangulate(vertices, how) ==
    IF how = "fan" THEN TriangulateFan(vertices, Len(vertices))
    ELSE TriangulateEars(vertices, Len(vertices))

\* tolerance = 0.001
Tolerance == Q(1, 1000)

\* math.isclose(a, b, rel_tol=tolerance)
isclose(a, b) == RLe(RAbs(RSub(a, b)), RMul(Tolerance, RMax(RAbs(a), RAbs(b))))

\* near_start / near_end: both coordinates are close
Near(v, p) == isclose(v.x, p.x) /\ isclose(v.y, p.y)

\* e.matches after list(set(e.matches)): the ends of topology segments that
\* are near a subpoint of the edge
MatchesOf(topology, subs) ==
    {i \in 0..(Len(topology.vertices) - 1) :
        /\ \E s \in 1..Len(topology.segments) : i \in {topology.segments[s][1], topology.segments[s][2]}
        /\ \E j \in 1..Len(subs) : Near(topology.vertices[i + 1], subs[j])}

\* the first loop over the panels, once the shape is triangulated
Matched(p, unit, topology) ==
    [panel |-> p,
     topology |-> topology,
     subpoints |-> [j \in 1..Len(p.edges) |-> subpoints(p.edges[j], unit)],
     matches |-> [j \in 1..Len(p.edges) |-> MatchesOf(topology, subpoints(p.edges[j], unit))]]

\* the first loop over the panels: subdivide, triangulate, match
Prepared(ps, unit, how) ==
    [k \in 1..Len(ps) |-> Matched(ps[k], unit, triangulate(ShapeVertices(ps[k].edges, unit), how))]

\* rotate_euler(v, r) for the rotation (0, 0, 0) every panel here has
rotate_euler(v, r) == v

\* the mesh vertex of a topology vertex: [v[0], 0, v[1]] rotated, then moved
\* by the translation taken from Maya's axes to Blender's
Vertex3D(p, v) ==
    LET r == rotate_euler(<<v.x, I(0), v.y>>, p.rotation)
    IN  <<RAdd(r[1], p.translation[1]),
          RAdd(r[2], RNeg(p.translation[3])),
          RAdd(r[3], p.translation[2])>>

Shift_no_offset(tuples, offset) == tuples

\* (e[0] + offset, e[1] + offset) and tuple([indice + offset for indice in triangle])
Shift(tuples, offset) ==
    [i \in 1..Len(tuples) |-> [k \in 1..Len(tuples[i]) |-> tuples[i][k] + offset]]

\* e.matches = [indice + offset for indice in e.matches if indice]
ShiftMatches(matches, offset) ==
    [j \in 1..Len(matches) |-> {i + offset : i \in matches[j] \ {0}}]

\* lowest_point: the minimum of every coordinate over the vertices so far
LowestPoint(vertices) ==
    [c \in 1..3 |-> RMinOf({vertices[i][c] : i \in 1..Len(vertices)})]

EmptyMesh == [vertices |-> <<>>, edges |-> <<>>, faces |-> <<>>, parts |-> <<>>]

\* what the second loop leaves of one panel: where its vertices start and
\* how many vertices, edges and faces it gave, its shifted matches and
\* p.lowest_point
PartOf(prep, offset, vertices) ==
    [name |-> prep.panel.name,
     offset |-> offset,
     vertices |-> Len(prep.topology.vertices),
     edges |-> Len(prep.topology.edges),
     faces |-> Len(prep.topology.triangles),
     subpoints |-> [j \in 1..Len(prep.subpoints) |-> Len(prep.subpoints[j])],
     matches |-> ShiftMatches(prep.matches, offset),
     lowest_point |-> LowestPoint(vertices)]

\* one turn of the second loop over the panels
AddPanel(prep, offset, mesh, vertices) ==
    [vertices |-> vertices,
     edges |-> mesh.edges \o Shift(prep.topology.edges, offset),
     faces |-> mesh.faces \o Shift(prep.topology.triangles, offset),
     parts |-> Append(mesh.parts, PartOf(prep, offset, vertices))]

RECURSIVE Assemble(_, _, _)
\* the second loop over the panels; offset = len(vertices)
Assemble(preps, k, mesh) ==
    IF k > Len(preps) THEN mesh
    ELSE Assemble(preps, k + 1,
                  AddPanel(preps[k], Len(mesh.vertices), mesh,
                           mesh.vertices \o [i \in 1..Len(preps[k].topology.vertices) |->
                                                Vertex3D(preps[k].panel, preps[k].topology.vertices[i])]))

\* distance_3D squared: sorting by it sorts by the distance
Dist3Sq(v, w) ==
    RAdd(RAdd(RMul(RSub(w[1], v[1]), RSub(w[1], v[1])), RMul(RSub(w[2], v[2]), RSub(w[2], v[2]))),
         RMul(RSub(w[3], v[3]), RSub(w[3], v[3])))

RECURSIVE SortedOrders(_, _, _)
\* sorted(matches, key=distance to lowest_point): equally distant vertices
\* stay in the order list(set(...)) gave them, which is any order
SortedOrders(S, vertices, low) ==
    IF S = {} THEN {<<>>}
    ELSE UNION {{<<m>> \o o : o \in SortedOrders(S \ {m}, vertices, low)} :
                  m \in {m \in S : \A w \in S :
                            RLe(Dist3Sq(vertices[m + 1], low), Dist3Sq(vertices[w + 1], low))}}

\* [(x, y) for x, y in zip(a, b)]
ZipPairs(a, b) ==
    [k \in 1..(IF Len(a) < Len(b) THEN Len(a) ELSE Len(b)) |-> <<a[k], b[k]>>]

PartNames(mesh) == [k \in 1..Len(mesh.parts) |-> mesh.parts[k].name]

\* pat.get_panel(side["panel"]).edges[side["edge"]] raises
SideRaises(mesh, side) ==
    IF IndexOf(PartNames(mesh), side.panel) = 0 THEN "ValueError"
    ELSE IF side.edge >= Len(mesh.parts[IndexOf(PartNames(mesh), side.panel)].matches)
           THEN "IndexError" ELSE NoErr

\* the sorted matches of one side of a stitch
SideOrders(mesh, part, side) ==
    SortedOrders(part.matches[side.edge + 1], mesh.vertices, part.lowest_point)

\* sewing_edges of one stitch
SewingEdges(mesh, stitch) ==
    {ZipPairs(a, b) :
        a \in SideOrders(mesh, mesh.parts[IndexOf(PartNames(mesh), stitch[1].panel)], stitch[1]),
        b \in SideOrders(mesh, mesh.parts[IndexOf(PartNames(mesh), stitch[2].panel)], stitch[2])}

RECURSIVE SewLoop(_, _)
\* the loop over pat.stitches: all_stitches, or the error that ends it
SewLoop(mesh, st) ==
    IF st = <<>> THEN {[stitches |-> <<>>, err |-> NoErr]}
    ELSE IF SideRaises(mesh, Head(st)[1]) # NoErr
      THEN {[stitches |-> <<>>, err |-> SideRaises(mesh, Head(st)[1])]}
    ELSE IF SideRaises(mesh, Head(st)[2]) # NoErr
      THEN {[stitches |-> <<>>, err |-> SideRaises(mesh, Head(st)[2])]}
    ELSE {[stitches |-> sewing \o rest.stitches, err |-> rest.err] :
              sewing \in SewingEdges(mesh, Head(st)), rest \in SewLoop(mesh, Tail(st))}

\* mesh_dic as pickled, with what the loops left of every panel; nothing is
\* written when the stitch loop raises
MeshDic(unit, mesh, sewn) ==
    IF sewn.err # NoErr THEN [err |-> sewn.err, unit |-> unit, parts |-> mesh.parts]
    ELSE [err |-> NoErr, unit |-> unit, parts |-> mesh.parts,
          vertices |-> mesh.vertices,
          edges |-> mesh.edges \o sewn.stitches,
          faces |-> mesh.faces,
          stitches |-> sewn.stitches]

MeshDics(unit, mesh, st) == {MeshDic(unit, mesh, sewn) : sewn \in SewLoop(mesh, st)}

\* create_mesh_cache(pattern, output_path): every mesh_dic it can write
create_mesh_cache(ps, st, how) ==
    MeshDics(smallest_edge(ps), Assemble(Prepared(ps, smallest_edge(ps), how), 1, EmptyMesh), st)

\* outlines whose sides have the lengths 4, 5, 3 and 4, 5, 4, 5
MeshTri == PanelOf("tri", <<Pt(0,0), Pt(4,0), Pt(0,3)>>, NoControls(3), NoIDs(3))
MeshRect == PanelOf("rect", <<Pt(0,0), Pt(4,0), Pt(4,5), Pt(0,5)>>, NoControls(4), NoIDs(4))
\* placed one unit to the left and two units to the front
MeshRectMoved == [MeshRect EXCEPT !.translation = <<I(-1), I(0), I(2)>>]
MeshTriMoved == [MeshTri EXCEPT !.translation = <<I(6), I(1), I(0)>>]

MeshPatterns ==
    {<<MeshRect>>, <<MeshTri>>, <<MeshRectMoved, MeshTri>>, <<MeshTriMoved, MeshRect>>}

MeshSides == {[panel |-> n, edge |-> i] : n \in {"tri", "rect"}, i \in 0..3}
MeshOtherSides ==
    {[panel |-> "tri", edge |-> 1], [panel |-> "rect", edge |-> 2], [panel |-> "rect", edge |-> 0]}
MeshStitchLists ==
    {<<>>, <<Stitch("tri", 1, "rect", 1), Stitch("rect", 3, "tri", 2)>>}
    \cup {<<<<a, b>>>> : a \in MeshSides, b \in MeshOtherSides}

MeshTasks ==
    {[op |-> "create_mesh_cache", panels |-> ps, stitches |-> st, triangulation |-> how] :
        ps \in MeshPatterns, st \in MeshStitchLists, how \in Triangulations}

CreateMeshCache ==
    /\ task.op = "create_mesh_cache"
    /\ outcome = NoOutcome
    /\ outcome' \in create_mesh_cache(task.panels, task.stitches, task.triangulation)
    /\ UNCHANGED <<task, meshVars, panelVars, patternVars, copyVars>>

\* if p3d_from_blender: p3d = (p3d[0], p3d[2], -p3d[1])
ToMaya(p3d, p3d_from_blender) ==
    IF p3d_from_blender THEN <<p3d[1], p3d[3], RNeg(p3d[2])>> ELSE p3d

\* the translation align_translation computes from the center and the
\* converted 3D point
AlignedTranslation(c, p2d, p3d) ==
    <<RSub(c.x, RSub(p2d.x, p3d[1])), RSub(c.y, RSub(p2d.y, p3d[2])), p3d[3]>>

\* Panel.align_translation(p2d, p3d, p3d_from_blender)
align_translation(self, p2d, p3d, p3d_from_blender) ==
    Res([self EXCEPT !.translation =
            AlignedTranslation(center(self), p2d, ToMaya(p3d, p3d_from_blender))], NoErr)

\* a square around the origin
Centred == PanelOf("centred", <<Pt(-2,-2), Pt(2,-2), Pt(2,2), Pt(-2,2)>>, NoControls(4), NoIDs(4))

AlignPanels == {Centred, Square, Diamond, Quarter, MeshTri, MeshRectMoved}
AlignPoints2D == {Pt(0, 0), Pt(2, -2), Point(Q(1, 2), I(3))}
AlignPoints3D == {<<I(x), I(y), I(z)>> : x \in {0, 3}, y \in {0, -1}, z \in {0, 5}}

AlignTasks ==
    {[op |-> "align_translation", panel |-> p, p2d |-> p2d, p3d |-> p3d, p3d_from_blender |-> b] :
        p \in AlignPanels, p2d \in AlignPoints2D, p3d \in AlignPoints3D, b \in BOOLEAN}

AlignTranslation ==
    /\ task.op = "align_translation"
    /\ outcome = NoOutcome
    /\ outcome' = align_translation(task.panel, task.p2d, task.p3d, task.p3d_from_blender)
    /\ UNCHANGED <<task, meshVars, panelVars, patternVars, copyVars>>

(***************************************************************************)
(* Design (design.py) with the definitions of Aaron (designs/aaron.py).    *)
(* measurements is a dict, here a function from names to numbers; _pattern *)
(* is <<>> for None and <<pattern>> once new_pattern has stored one.  The  *)
(* freesewing generator is an external process: what it returns is stood   *)
(* for by the measures and options it was given.                           *)
(***************************************************************************)
\* aaron_definitions.required_measurements
required_measurements ==
    {"biceps", "chest", "hips", "hpsToWaistBack", "neck", "shoulderSlope",
     "shoulderToShoulder", "waistToHips", "waistToArmpit"}

\* aaron_definitions.optional_measurements
optional_measurements == {"highBust"}

\* aaron_definitions.styles, by name
styles == {"default", "croptop", "sport"}

\* two files of data/measurements_sets, each with every measurement of Aaron
MeasurementSets ==
    <<[n \in required_measurements \cup optional_measurements |-> 10],
      [n \in required_measurements \cup optional_measurements |-> 20]>>

\* Design.missing_measurements
missing_measurements(self) == required_measurements \ DOMAIN self.measurements

RECURSIVE Difference(_, _, _)
\* current_difference of one example set: the sum of abs(example - known)
\* over the names still to add
Difference(m_example, measurements, names) ==
    IF names = {} THEN 0
    ELSE LET n == CHOOSE n \in names : TRUE
         IN  Abs(m_example[n] - measurements[n])
             + Difference(m_example, measurements, names \ {n})

\* m_example[known_m_name] raises KeyError for a name no example set has
CompleteRaises(measurements) ==
    \E n \in DOMAIN measurements : n \notin DOMAIN MeasurementSets[1]

\* best_match: the first example set with the lowest difference
BestMatch(measurements) ==
    MeasurementSets[CHOOSE i \in 1..Len(MeasurementSets) :
        /\ \A j \in 1..Len(MeasurementSets) :
              Difference(MeasurementSets[i], measurements, DOMAIN measurements)
                  <= Difference(MeasurementSets[j], measurements, DOMAIN measurements)
        /\ \A j \in 1..(i - 1) :
              Difference(MeasurementSets[j], measurements, DOMAIN measurements)
                  > Difference(MeasurementSets[i], measurements, DOMAIN measurements)]

\* the loop that fills self.measurements[missing] = best_match[missing]
Filled(measurements, missing, best_match) ==
    [n \in DOMAIN measurements \cup missing |->
        IF n \in DOMAIN measurements THEN measurements[n] ELSE best_match[n]]

\* Design.complete_measurments(): the dict is changed in place
complete_measurments(self) ==
    [self EXCEPT !.measurements =
        Filled(self.measurements, missing_measurements(self), BestMatch(self.measurements))]

NoOptions == [kind |-> "None"]
StyleName(name) == [kind |-> "str", name |-> name]
OptionsDict(name) == [kind |-> "dict", name |-> name]

\* the options handed to the generator: the style of that name, the default
\* options for None, the dict itself otherwise
ResolvedOptions(options) ==
    IF options.kind = "None" THEN OptionsDict("default_options")
    ELSE IF options.kind = "str" THEN OptionsDict(options.name) ELSE options

\* what new_pattern leaves: the design, the error raised, what it returned
\* and how many times the generator was invoked
DesignResult(self, err, generator_calls) ==
    [design |-> self, err |-> err, generator_calls |-> generator_calls]

\* generate_freesewing_pattern, _process_pattern and _map_stitches: the new
\* pattern is stored before _map_stitches may raise on stitches that do not fit
Generate(self, options, stitches_fit) ==
    DesignResult([self EXCEPT !.pattern =
                     <<[measurements |-> self.measurements, options |-> ResolvedOptions(options)]>>],
                 IF stitches_fit THEN NoErr ELSE "RuntimeError", 1)

\* new_pattern from "Options is a style name" on
WithOptions(self, options, stitches_fit) ==
    IF options.kind = "str" /\ options.name \notin styles
      THEN DesignResult(self, "KeyError", 0)
      ELSE Generate(self, options, stitches_fit)

CompletesMissing_always(complete_missing_measures) == TRUE

\* if complete_missing_measures: ... else: raise RuntimeError
CompletesMissing(complete_missing_measures) == complete_missing_measures

\* Design.new_pattern(options, tolerance, complete_missing_measures)
new_pattern(self, options, complete_missing_measures, stitches_fit) ==
    IF missing_measurements(self) = {} THEN WithOptions(self, options, stitches_fit)
    ELSE IF ~CompletesMissing(complete_missing_measures) THEN DesignResult(self, "RuntimeError", 0)
    ELSE IF CompleteRaises(self.measurements) THEN DesignResult(self, "KeyError", 0)
    ELSE WithOptions(complete_measurments(self), options, stitches_fit)

\* the names a design may lack: none, one or two of Aaron's measurements
MissingNames ==
    {{}} \cup {{a, b} : a \in required_measurements \cup optional_measurements,
                        b \in required_measurements \cup optional_measurements}

\* measurements near one of the example sets, with or without a name that
\* no example set has
DesignMeasurements ==
    {[n \in ((required_measurements \cup optional_measurements) \ gone) \cup extra |-> v] :
        gone \in MissingNames, extra \in {{}, {"wrist"}}, v \in {11, 19}}

\* the pattern an earlier new_pattern has stored
EarlierPattern ==
    <<[measurements |-> [n \in required_measurements |-> 11], options |-> OptionsDict("sport")]>>

Designs == {[measurements |-> m, pattern |-> p] : m \in DesignMeasurements, p \in {<<>>, EarlierPattern}}

OptionArgs == {NoOptions, StyleName("croptop"), StyleName("crop"), OptionsDict("random_options")}

NewPatternTasks ==
    {[op |-> "new_pattern", design |-> self, options |-> o,
      complete_missing_measures |-> c, stitches_fit |-> f] :
        self \in Designs, o \in OptionArgs, c \in BOOLEAN, f \in BOOLEAN}

NewPattern ==
    /\ task.op = "new_pattern"
    /\ outcome = NoOutcome
    /\ outcome' = new_pattern(task.design, task.options, task.complete_missing_measures,
                              task.stitches_fit)
    /\ UNCHANGED <<task, meshVars, panelVars, patternVars, copyVars>>

\* the function named by the task is called once
Tasks == SvgTasks \cup RoundTripTasks \cup MapStitchesTasks \cup MeshTasks \cup AlignTasks
         \cup NewPatternTasks

InitCall ==
    /\ task \in Tasks
    /\ outcome = NoOutcome
    /\ IdleMesh
    /\ IdlePanel
    /\ IdlePattern
    /\ IdleCopy

NextCall == FromSvg \/ JsonRoundTrip \/ MapStitches \/ CreateMeshCache \/ AlignTranslation
            \/ NewPattern

SpecCall == InitCall /\ [][NextCall]_vars

(***************************************************************************)
(* State machine of a Pattern p and the Pattern q read back from its       *)
(* p.as_json().  A list is an object: Pattern.stitches names one, two      *)
(* patterns may name the same one, and list.append changes it for both.    *)
(***************************************************************************)
MaxCopyOps == 3

CopyPatterns == {<<Split, Square, Half>>, <<Square, Split>>}

CopyStitches == {<<>>, <<Stitch("split", 0, "square", 0)>>, LoadedStitches}

InitCopy ==
    /\ pattern_p \in {[panels |-> ps, stitches |-> 1] : ps \in CopyPatterns}
    /\ heap \in {<<st>> : st \in CopyStitches}
    /\ pattern_q = NoPattern
    /\ edit = NoEdit
    /\ IdleMesh
    /\ IdlePanel
    /\ IdlePattern
    /\ IdleCall

\* the pattern the call is made on
Target(target) == IF target = "p" THEN pattern_p ELSE pattern_q

\* one method call on p or on q, which leaves the pattern as after
CopyCall(target, method, after, lists, err) ==
    /\ edit.err = NoErr
    /\ edit.n < MaxCopyOps
    /\ pattern_p' = (IF target = "p" THEN after ELSE pattern_p)
    /\ pattern_q' = (IF target = "q" THEN after ELSE pattern_q)
    /\ heap' = lists
    /\ edit' = [target |-> target, op |-> method, err |-> err, n |-> edit.n + 1]
    /\ UNCHANGED <<meshVars, panelVars, patternVars, callVars>>

\* the stitches attribute of the pattern that from_json builds:
\* as_json puts self.stitches itself under "stitches" and from_json assigns
\* data["pattern"]["stitches"], so it names the list object of the source
StitchesOfCopy(source) == source.stitches

\* q = Pattern.from_json(p.as_json(curvature_is_relative))
CopyFromJson ==
    /\ pattern_q = NoPattern
    /\ \E relative \in BOOLEAN :
          LET made == RoundTrip(PatternAsJson(pattern_p.panels, heap[pattern_p.stitches],
                                              relative))
          IN  IF made.err # NoErr
                THEN CopyCall("q", "from_json", pattern_q, heap, made.err)
                ELSE CopyCall("q", "from_json",
                              [panels |-> made.panels,
                               stitches |-> StitchesOfCopy(pattern_p)],
                              heap, NoErr)

CopyStitchArgs == {<<"split", 0, "square", 0>>, <<"split", 4, "square", 3>>}

\* add_stitch on p or on q: self.stitches.append changes the list object
CopyAddStitch ==
    \E target \in {"p", "q"}, a \in CopyStitchArgs :
        /\ Target(target) # NoPattern
        /\ CopyCall(target, "add_stitch", Target(target),
                    [heap EXCEPT ![Target(target).stitches] =
                        add_stitch(@, a[1], a[2], a[3], a[4])],
                    NoErr)

CopyRemoveArgs ==
    {<<NameArg("split")>>, <<NameArg("square")>>, <<NameArg("ghost")>>,
     <<NameArg("square"), NameArg("square")>>}

\* the pattern and the list objects after remove_panels ended with res:
\* self.panels is popped in place, self.stitches = new_stitches names a new list
AfterRemove(target, res) ==
    IF res.err # NoErr
      THEN CopyCall(target, "remove_panels", [Target(target) EXCEPT !.panels = res.panels],
                    heap, res.err)
      ELSE CopyCall(target, "remove_panels",
                    [panels |-> res.panels, stitches |-> Len(heap) + 1],
                    Append(heap, res.stitches), NoErr)

\* remove_panels on p or on q
CopyRemovePanels ==
    \E target \in {"p", "q"}, args \in CopyRemoveArgs :
        /\ Target(target) # NoPattern
        /\ AfterRemove(target, remove_panels(Target(target).panels,
                                             heap[Target(target).stitches], args))

NextCopy == CopyFromJson \/ CopyAddStitch \/ CopyRemovePanels

SpecCopy == InitCopy /\ [][NextCopy]_vars

(***************************************************************************)
(* Properties of the retry loop                                            *)
(***************************************************************************)

\* C1: when the triangulator fails on its first k-1 invocations and prints
\* the sentinel on invocation k, the run returns the mesh written by that
\* invocation together with an attempt count equal to k.
C1_AttemptCountIsK ==
    pc = "done" =>
        /\ result.n_attemps = succeed_at
        /\ result.n_attemps = invocations
        /\ result.mesh = succeed_at

C1_Witness == pc = "done" /\ succeed_at = 4 /\ result.n_attemps = 4 /\ invocations = 4

\* C2: with a triangulator that never prints the sentinel the run never
\* returns a mesh, and the budget error is raised exactly when the attempt
\* counter reaches 40: not before, and the counter never goes past it.
C2_RaisesExactlyAt40 ==
    succeed_at = 0 =>
        /\ pc # "done"
        /\ result = NoResult
        /\ n_attemps <= MaxAttempts
        /\ (pc = "raised" <=> n_attemps = MaxAttempts)

C2_Witness == succeed_at = 0 /\ pc = "raised" /\ n_attemps = 40

\* C3: the budget allows 40 triangulator invocations: the error is raised
\* only after 40 invocations have failed, and a triangulator that succeeds
\* on its 40th invocation yields a mesh with attempt count 40.
C3_FortyInvocationsAllowed ==
    /\ (pc = "raised" => invocations = MaxAttempts)
    /\ (succeed_at = MaxAttempts /\ pc \in {"done", "raised"} =>
            pc = "done" /\ result.n_attemps = MaxAttempts)

\* C4: the pattern json is written exactly once, before the first
\* triangulator invocation, never again on a retry, and every invocation
\* reads that one file.
C4_JsonWrittenOnce ==
    /\ json_writes <= 1
    /\ (pc = "spawn" => json_writes = 1)
    /\ (invocations >= 1 => json_writes = 1 /\ json_read = 1)

C4_Witness == invocations = 3 /\ pc = "retry" /\ json_writes = 1 /\ json_read = 1

\* C5 (as stated): the first invocation uses nudge 0.01 and every later
\* invocation uses attempt * 0.02.
C5_FirstNudgeIsDefault ==
    pc \in {"retry", "done"} =>
        nudge = IF n_attemps = 1 THEN NudgeDefault ELSE n_attemps * NudgeStep

\* C5 (amended): every invocation, the first one included, uses
\* nudge = attempt * 0.02; the first invocation therefore uses 0.02.
C5_NudgeIsAttemptTimesStep ==
    /\ (pc \in {"retry", "done"} => nudge = n_attemps * NudgeStep)
    /\ (invocations = 1 => nudge = 2)

C5_Witness == invocations = 1 /\ n_attemps = 1 /\ nudge = 2 /\ pc = "retry"

(***************************************************************************)
(* Properties of the Pattern                                               *)
(***************************************************************************)
\* the reference resolves: the panel exists and has an edge at that index
ReferenceResolves(ps, ref) ==
    LET at == IndexOf(panel_order(ps), ref.panel)
    IN  at # 0 /\ ref.edge >= 0 /\ ref.edge < Len(ps[at].edges)

StitchesResolve(ps, st) ==
    \A i \in 1..Len(st) : \A side \in 1..2 : ReferenceResolves(ps, st[i][side])

\* C6 (as stated): after any sequence of add_stitch, remove_panels,
\* unsplit_lines and unfold calls that returned, every stitch names a panel
\* of the pattern and an edge index that panel has.
C6_StitchesAlwaysResolve ==
    call.err = NoErr => StitchesResolve(panels, stitches)

\* C6 (amended): a remove_panels or unfold call that returns keeps a stitch
\* list whose references all resolve that way; add_stitch checks nothing, so
\* after it the references all resolve exactly when the two it was given do;
\* unsplit_lines shortens an edge list and can leave a stitch dangling.
C6_ResolvingStitchesKept ==
    [][(StitchesResolve(panels, stitches) /\ call'.err = NoErr) =>
          /\ (call'.op \in {"remove_panels", "unfold"} => StitchesResolve(panels', stitches'))
          /\ (call'.op = "add_stitch" =>
                (StitchesResolve(panels', stitches') <=>
                    /\ ReferenceResolves(panels, [panel |-> call'.args[1], edge |-> call'.args[2]])
                    /\ ReferenceResolves(panels, [panel |-> call'.args[3], edge |-> call'.args[4]])))
      ]_vars

C6_Witness ==
    /\ call.op = "remove_panels"
    /\ call.err = NoErr
    /\ call.n = 2
    /\ Len(panels) = 2
    /\ stitches = <<Stitch("split", 0, "square", 0)>>
    /\ StitchesResolve(panels, stitches)

\* the names remove_panels was asked to remove: the names given and the
\* names of the Panel instances given that are in the pattern
NamedPanels(ps, args) ==
    {args[i].name : i \in {j \in 1..Len(args) : args[j].kind = "str" \/ args[j].at # 0}}

MentionsAny(stitch, names) == \E side \in 1..2 : stitch[side].panel \in names

\* C7: after a remove_panels call that returned, no named panel is left in
\* the pattern, no stitch left mentions a removed panel on either side, and
\* the stitches that mention none are all kept, in their order.
C7_RemovePurges ==
    [][(call'.op = "remove_panels" /\ call'.err = NoErr) =>
          LET names == NamedPanels(panels, call'.args)
          IN  /\ \A i \in 1..Len(panels') : panels'[i].name \notin names
              /\ \A i \in 1..Len(panels') : panels'[i] \in Range(panels)
              /\ \A i \in 1..Len(panels) :
                    panels[i].name \notin names => panels[i] \in Range(panels')
              /\ \A i \in 1..Len(stitches') : ~MentionsAny(stitches'[i], names)
              /\ stitches' = SelectSeq(stitches, LAMBDA stitch : ~MentionsAny(stitch, names))
      ]_vars

C7_Witness ==
    /\ call.op = "remove_panels"
    /\ call.err = NoErr
    /\ call.n = 1
    /\ call.args = <<NameArg("square")>>
    /\ panel_order(panels) = <<"split", "half">>
    /\ stitches = <<Stitch("half", 0, "split", 1), Stitch("split", 2, "split", 4)>>

(***************************************************************************)
(* Properties of the Panel                                                 *)
(***************************************************************************)
\* every edge ends where the next one starts, the last one where the first
\* one starts, and the endpoints indices close on vertex 0
ClosedLoop(self) ==
    LET n == Len(self.edges)
    IN  /\ n > 0
        /\ \A k \in 1..n : self.edges[k].p1 = self.edges[(k % n) + 1].p0
        /\ Len(self.edges[n].endpoints) = 2
        /\ self.edges[n].endpoints[2] = 0
        /\ Len(self.edges[1].endpoints) = 2
        /\ self.edges[1].endpoints[1] = 0

LoopKeepingOps == {"order_edges", "normalize_edge_order", "unsplit_lines", "unfold", "move", "scale"}

\* C8: a closed-loop panel is still a closed loop after any sequence of
\* order_edges, normalize_edge_order, unsplit_lines, unfold, move and scale
\* calls that returned: edges[k].p1 = edges[k+1 mod n].p0 for every k and
\* edges[last].endpoints[1] = edges[0].endpoints[0] = 0.
C8_ClosedLoopKept ==
    (panel_err = NoErr /\ \A i \in 1..Len(panel_ops) : panel_ops[i] \in LoopKeepingOps)
        => ClosedLoop(panel)

\* len(vertices) = len(edges), vertices[i] = edges[i].p0 and
\* edges[i].endpoints = [i, (i+1) mod n]
VerticesMatchEdges(self) ==
    LET n == Len(self.edges)
    IN  /\ Len(self.vertices) = n
        /\ \A i \in 1..n :
              /\ self.vertices[i] = self.edges[i].p0
              /\ self.edges[i].endpoints = <<i - 1, i % n>>

EdgeListOps ==
    {"order_edges", "normalize_edge_order", "straighten_curves", "unsplit_lines", "unfold"}

\* C9: after every call of order_edges, normalize_edge_order,
\* straighten_curves, unsplit_lines or unfold that returned, the vertex list
\* and the endpoints match the edge list again.
C9_VerticesRestored ==
    (panel_ops # <<>> /\ panel_err = NoErr /\ panel_ops[Len(panel_ops)] \in EdgeListOps)
        => VerticesMatchEdges(panel)

\* C10: normalize_edge_order is idempotent: on every panel the methods
\* reach, normalising once more after a normalisation changes neither the
\* edges, their order, their orientation nor their endpoints, ties for the
\* nearest vertex included.
C10_NormalizeIdempotent ==
    (panel_err = NoErr /\ panel.edges # <<>>) =>
        LET once == normalize_edge_order(panel)
        IN  /\ normalize_edge_order(once) = once
            /\ (panel_ops # <<>> /\ panel_ops[Len(panel_ops)] = "normalize_edge_order"
                    => once = panel)

C10_Witness ==
    /\ panel_ops = <<"normalize_edge_order">>
    /\ panel_err = NoErr
    /\ panel.name = "diamond_cw"
    /\ panel.vertices = <<Pt(2, 0), Pt(4, 2), Pt(2, 4), Pt(0, 2)>>
    /\ Manhattan(Pt(2, 0), get_bbox(panel)[1]) = Manhattan(Pt(0, 2), get_bbox(panel)[1])

LastOp == IF panel_ops = <<>> THEN "None" ELSE panel_ops[Len(panel_ops)]

\* C11: after normalize_edge_order, whatever the winding and the starting
\* edge before, the shoelace sum of (p1.x - p0.x)*(p1.y + p0.y) over the
\* edges is never positive.
C11_WindingNeverPositive ==
    (panel_err = NoErr /\ panel.edges # <<>>) =>
        /\ RLe(calculus(normalize_edge_order(panel).edges), I(0))
        /\ (LastOp = "normalize_edge_order" => RLe(calculus(panel.edges), I(0)))

\* a clockwise square has been normalised and now winds the other way
C11_Witness ==
    /\ panel_ops = <<"normalize_edge_order">>
    /\ panel_err = NoErr
    /\ panel.name = "square_cw"
    /\ RLt(I(0), calculus(SquareClockwise.edges))
    /\ RLt(calculus(panel.edges), I(0))

\* C12: an unfold call that returns leaves exactly 2*(n-1) edges, and as
\* many vertices, where n is the number of edges before the call.
C12_UnfoldDoublesEdges ==
    [][(LastOp' = "unfold" /\ panel_err' = NoErr /\ panel_ops' # panel_ops) =>
          /\ Len(panel'.edges) = 2 * (Len(panel.edges) - 1)
          /\ Len(panel'.vertices) = 2 * (Len(panel.edges) - 1)]_vars

\* the five-edge rectangle with a split side has been unfolded to eight edges
C12_Witness ==
    /\ panel_ops = <<"unfold">>
    /\ panel_err = NoErr
    /\ panel.name = "split"
    /\ Len(Split.edges) = 5
    /\ Len(panel.edges) = 8
    /\ Len(panel.vertices) = 8

\* C13: after an unfold call that returned, Panel.center is (0,0).
C13_UnfoldCentersPanel ==
    (LastOp = "unfold" /\ panel_err = NoErr) => center(panel) = Pt(0, 0)

\* the Curve e is an edge of the list with the same p0, p1 and control point
CurvePresent(e, edges) ==
    \E k \in 1..Len(edges) :
        IsCurve(edges[k]) /\ edges[k].p0 = e.p0 /\ edges[k].p1 = e.p1 /\ edges[k].pc = e.pc

\* C14: every Curve edge present before an unsplit_lines call that returned
\* is still present afterwards with the same p0, p1 and control point.
C14_CurvesSurviveUnsplit ==
    [][(LastOp' = "unsplit_lines" /\ panel_err' = NoErr /\ panel_ops' # panel_ops) =>
          \A k \in 1..Len(panel.edges) :
              IsCurve(panel.edges[k]) => CurvePresent(panel.edges[k], panel'.edges)]_vars

(***************************************************************************)
(* Properties of the functions called once                                 *)
(***************************************************************************)

HasCubic(path) == \E i \in 1..Len(path) : path[i].kind = "CubicBezier"

\* C15: whenever the parsed path holds a cubic Bezier segment, one whose
\* start equals its end included, Panel.from_svg raises and returns no panel.
C15_CubicAlwaysRejected ==
    (task.op = "from_svg" /\ outcome # NoOutcome /\ HasCubic(task.path))
        => outcome.err = "RuntimeError"

\* C16: Pattern.from_json(p.as_json()) has as many panels as p, the same
\* vertex count and edge count for each panel, and the same stitch list.
C16_RoundTripKeepsCounts ==
    (task.op = "round_trip" /\ outcome # NoOutcome) =>
        /\ outcome.err = NoErr
        /\ Len(outcome.panels) = Len(task.panels)
        /\ \A i \in 1..Len(task.panels) :
              /\ Len(outcome.panels[i].vertices) = Len(task.panels[i].vertices)
              /\ Len(outcome.panels[i].edges) = Len(task.panels[i].edges)
        /\ outcome.stitches = task.stitches

\* the number of edges of the named panel that carry the id
CountWithID(ps, side) ==
    Cardinality({i \in 1..Len(get_panel(ps, side[1]).edges) :
                    get_panel(ps, side[1]).edges[i].freesewing_ID = <<side[2]>>})

\* the 0-based index of the k-th edge of the named panel that carries the id
KthWithID(ps, side, k) ==
    CHOOSE i \in 0..(Len(get_panel(ps, side[1]).edges) - 1) :
        /\ get_panel(ps, side[1]).edges[i + 1].freesewing_ID = <<side[2]>>
        /\ Cardinality({j \in 1..i : get_panel(ps, side[1]).edges[j].freesewing_ID = <<side[2]>>}) = k - 1

Mismatched(ps, stitch) == CountWithID(ps, stitch[1]) # CountWithID(ps, stitch[2])

\* the design stitches handled before the first mismatched one
HandledStitches(ps, l) ==
    IF \E s \in 1..Len(l) : Mismatched(ps, l[s])
      THEN SubSeq(l, 1, (CHOOSE s \in 1..Len(l) :
                            Mismatched(ps, l[s]) /\ \A t \in 1..(s - 1) : ~Mismatched(ps, l[t])) - 1)
      ELSE l

RECURSIVE EntriesBefore(_, _, _)
\* the number of concrete entries the first s - 1 design stitches add
EntriesBefore(ps, l, s) ==
    IF s <= 1 THEN 0 ELSE EntriesBefore(ps, l, s - 1) + CountWithID(ps, l[s - 1][1])

\* C17: a design stitch whose two sides match different numbers of edges
\* raises the mismatch error; otherwise exactly that many concrete entries
\* are added, the k-th pairing the index of the k-th matching edge of A with
\* that of the k-th matching edge of B.
C17_StitchesPairedInOrder ==
    (task.op = "_map_stitches" /\ outcome # NoOutcome) =>
        LET done == HandledStitches(task.panels, task.stitches)
        IN  /\ (outcome.err = "RuntimeError") <=> (Len(done) < Len(task.stitches))
            /\ outcome.err \in {NoErr, "RuntimeError"}
            /\ Len(outcome.stitches) = EntriesBefore(task.panels, done, Len(done) + 1)
            /\ \A s \in 1..Len(done) : \A k \in 1..CountWithID(task.panels, done[s][1]) :
                  outcome.stitches[EntriesBefore(task.panels, done, s) + k] =
                      Stitch(done[s][1][1], KthWithID(task.panels, done[s][1], k),
                             done[s][2][1], KthWithID(task.panels, done[s][2], k))

\* front has two edges with id 1 (indices 0, 1), back two with id -1
\* (indices 2, 4): two entries, paired in list order
C17_Witness ==
    /\ task.op = "_map_stitches"
    /\ task.stitches = <<<<<<"front", 1>>, <<"back", -1>>>>, <<<<"front", 2>>, <<"back", 2>>>>>>
    /\ outcome # NoOutcome
    /\ outcome.err = NoErr
    /\ outcome.stitches = <<Stitch("front", 0, "back", 2), Stitch("front", 1, "back", 4),
                            Stitch("front", 2, "back", 0)>>

\* a mismatched stitch has raised after an earlier one was mapped
C17_WitnessMismatch ==
    /\ task.op = "_map_stitches"
    /\ task.stitches = <<<<<<"front", 3>>, <<"back", 2>>>>, <<<<"front", 1>>, <<"back", 2>>>>>>
    /\ outcome # NoOutcome
    /\ outcome.err = "RuntimeError"
    /\ outcome.stitches = <<Stitch("front", 4, "back", 0)>>

MeshWritten == task.op = "create_mesh_cache" /\ outcome # NoOutcome /\ outcome.err = NoErr

RECURSIVE CountBefore(_, _, _)
\* how many vertices, edges or faces the panels before panel k gave
CountBefore(parts, k, what) ==
    IF k <= 1 THEN 0
    ELSE CountBefore(parts, k - 1, what)
         + (IF what = "vertices" THEN parts[k - 1].vertices
            ELSE IF what = "edges" THEN parts[k - 1].edges ELSE parts[k - 1].faces)

IndicesOf(tuples) == UNION {{tuples[i][k] : k \in 1..Len(tuples[i])} : i \in 1..Len(tuples)}

\* C18: in the emitted mesh, panel k's triangulation edges and faces are
\* shifted by the number of vertices emitted for the panels before it, so
\* they reference only that panel's own vertices, and every index of the
\* emitted edges, faces and seam edges is an index of the emitted vertex list.
C18_IndicesInGlobalSpace ==
    MeshWritten =>
        /\ IndicesOf(outcome.edges) \cup IndicesOf(outcome.faces) \cup IndicesOf(outcome.stitches)
               \subseteq 0..(Len(outcome.vertices) - 1)
        /\ \A k \in 1..Len(outcome.parts) :
              LET part == outcome.parts[k]
                  own == part.offset..(part.offset + part.vertices - 1)
                  e0 == CountBefore(outcome.parts, k, "edges")
                  f0 == CountBefore(outcome.parts, k, "faces")
              IN  /\ part.offset = CountBefore(outcome.parts, k, "vertices")
                  /\ IndicesOf(SubSeq(outcome.edges, e0 + 1, e0 + part.edges)) \subseteq own
                  /\ IndicesOf(SubSeq(outcome.faces, f0 + 1, f0 + part.faces)) \subseteq own
                  /\ part.edges > 0 /\ part.faces > 0

\* a mesh of two panels is written: the second panel's vertices start at 41
\* and a seam joins a vertex of each panel
C18_Witness ==
    /\ MeshWritten
    /\ Len(outcome.parts) = 2
    /\ outcome.parts[2].offset = 41
    /\ Len(outcome.vertices) = 69
    /\ \E i \in 1..Len(outcome.stitches) : outcome.stitches[i][1] >= 41 /\ outcome.stitches[i][2] < 41
    /\ \E i \in 1..Len(outcome.faces) : outcome.faces[i][1] >= 41

\* round(a / b) of two positive numbers: halves go to the even neighbour
RoundDiv(a, b) == RRound(RDiv(a, b), 1)[1]

MeshSubdivided == task.op = "create_mesh_cache" /\ outcome # NoOutcome

\* C19: with unit = (minimum edge length over all panels) / 6, every edge is
\* resampled into exactly max(1, round(edge.length / unit)) subpoints.
C19_SubpointsAreRoundedLength ==
    MeshSubdivided =>
        /\ outcome.unit = RDiv(RMinOf({length(e) : e \in AllEdges(task.panels)}), I(6))
        /\ \A k \in 1..Len(task.panels) : \A j \in 1..Len(task.panels[k].edges) :
              outcome.parts[k].subpoints[j] =
                  (IF RoundDiv(length(task.panels[k].edges[j]), outcome.unit) < 1 THEN 1
                   ELSE RoundDiv(length(task.panels[k].edges[j]), outcome.unit))

Aligned == task.op = "align_translation" /\ outcome # NoOutcome

\* where the translation of the panel puts a panel-local point, in the axes
\* of the translation: right, up, forward
Displaced(p, v) == <<RAdd(v.x, p.translation[1]), RAdd(v.y, p.translation[2]), p.translation[3]>>

\* C20: align_translation(p2d, p3d, flag) sets the translation so that p2d,
\* displaced by it, lands on p3d (taken through (x, y, z) -> (x, z, -y) when
\* the flag is set), for every panel, also one whose center is not (0, 0).
C20_AlignLandsOnPoint ==
    Aligned =>
        Displaced(outcome.panel, task.p2d) =
            (IF task.p3d_from_blender
               THEN <<task.p3d[1], task.p3d[3], RNeg(task.p3d[2])>>
               ELSE task.p3d)

\* the same for the panels whose center is (0, 0)
C20_CentredAlignLandsOnPoint ==
    (Aligned /\ center(task.panel) = Pt(0, 0)) =>
        Displaced(outcome.panel, task.p2d) =
            (IF task.p3d_from_blender
               THEN <<task.p3d[1], task.p3d[3], RNeg(task.p3d[2])>>
               ELSE task.p3d)

NewPatternCalled == task.op = "new_pattern" /\ outcome # NoOutcome

\* C21: new_pattern(complete_missing_measures=False) on a design that lacks
\* a required measurement raises RuntimeError before the generator is
\* invoked and leaves the stored pattern as it was.
C21_MissingMeasureRaisesFirst ==
    (/\ NewPatternCalled
     /\ ~task.complete_missing_measures
     /\ required_measurements \ DOMAIN task.design.measurements # {})
        => /\ outcome.err = "RuntimeError"
           /\ outcome.generator_calls = 0
           /\ outcome.design.pattern = task.design.pattern

\* the design of the test: biceps is missing, a pattern was stored before
C21_Witness ==
    /\ NewPatternCalled
    /\ ~task.complete_missing_measures
    /\ required_measurements \ DOMAIN task.design.measurements = {"biceps"}
    /\ task.design.pattern = EarlierPattern
    /\ task.stitches_fit
    /\ outcome.err = "RuntimeError"
    /\ outcome.design.pattern = EarlierPattern

\* the line is the sentinel text with nothing but whitespace around it
SentinelLine(line) ==
    \E i \in 1..Len(line) :
        line[i] = "sentinel" /\ \A j \in (1..Len(line)) \ {i} : line[j] = "ws"

\* C22: an attempt is successful exactly when the first line read from the
\* collaborator, stripped of whitespace, is the sentinel text; in every other
\* case no mesh is loaded from it and a further attempt is made or the
\* budget error raised.
C22_SuccessOnlyOnSentinel ==
    [][/\ pc = "spawn" =>
            /\ (pc' = "done") <=> SentinelLine(output')
            /\ SentinelLine(output') => result' = [mesh |-> invocations', n_attemps |-> n_attemps]
            /\ ~SentinelLine(output') => (pc' = "retry" /\ result' = result /\ result' = NoResult)
       /\ pc = "retry" => pc' \in {"spawn", "raised"}]_vars

\* a run that read lines without the sentinel, one of them holding the
\* sentinel among other text, and then the sentinel between whitespace
C22_Witness ==
    /\ pc = "done"
    /\ invocations = 3
    /\ output = <<"ws", "sentinel", "ws">>
    /\ result = [mesh |-> 3, n_attemps |-> 3]

\* every edge ends where the next one starts, the last one where the first starts
Connected(edges) ==
    edges # <<>> /\ \A k \in 1..Len(edges) : edges[k].p1 = edges[(k % Len(edges)) + 1].p0

\* the first vertex, in the order of the edge list, that no vertex beats in
\* Manhattan distance to origin
NearestVertex(edges, origin) ==
    edges[CHOOSE i \in 1..Len(edges) :
            /\ \A j \in 1..Len(edges) :
                  RLe(Manhattan(edges[i].p0, origin), Manhattan(edges[j].p0, origin))
            /\ \A j \in 1..(i - 1) :
                  Manhattan(edges[j].p0, origin) # Manhattan(edges[i].p0, origin)].p0

\* C23: after order_edges(origin) on a closed loop the first edge starts at
\* the vertex with the smallest Manhattan distance to origin, the first such
\* vertex of the edge order before the call on a tie, whether the loop was
\* counter-clockwise already or clockwise and had to be reversed.
C23_FirstEdgeStartsNearest ==
    (panel_err = NoErr /\ Connected(panel.edges)) =>
        \A origin \in Origins :
            /\ order_edges(panel, origin).edges[1].p0 = NearestVertex(panel.edges, origin)
            /\ order_edges(panel, origin).vertices[1] = NearestVertex(panel.edges, origin)

\* the clockwise diamond, whose corners (4,2) and (2,4) are equally near
\* (4,4), has been ordered from (4,4): it was reversed and starts at (2,4),
\* the first of the two in the order before the call
C23_Witness ==
    /\ panel_ops = <<"order_edges">>
    /\ panel_err = NoErr
    /\ panel.name = "diamond_cw"
    /\ RLt(I(0), calculus(DiamondClockwise.edges))
    /\ Manhattan(Pt(4, 2), Pt(4, 4)) = Manhattan(Pt(2, 4), Pt(4, 4))
    /\ panel = order_edges(DiamondClockwise, Pt(4, 4))
    /\ DiamondClockwise.edges[1].p0 = Pt(2, 4)
    /\ DiamondClockwise.edges[2].p0 = Pt(4, 2)
    /\ panel.edges[1].p0 = Pt(2, 4)
    /\ panel.edges[1].p1 = Pt(0, 2)

\* how many edges of the list carry the id (<<>> is no id)
CountID(edges, id) == Cardinality({k \in 1..Len(edges) : edges[k].freesewing_ID = id})

\* how many edges of the list carry the id whose negation is id
CountNegatedID(edges, id) ==
    Cardinality({k \in 1..Len(edges) :
        edges[k].freesewing_ID = (IF id = <<>> THEN <<>> ELSE <<0 - id[1]>>)})

IDsOf(edges) == {edges[k].freesewing_ID : k \in 1..Len(edges)}

\* the edges without the one at the 0-based index i (negative from the end)
WithoutAxis(edges, i) == RemoveAt(edges, IF i < 0 THEN i + Len(edges) + 1 ELSE i + 1)
AxisOf(edges, i) == edges[IF i < 0 THEN i + Len(edges) + 1 ELSE i + 1]

\* the ids after unfold(i): those of the n-1 edges that are not the axis,
\* unchanged, and once more negated (no id stays no id)
IDsMirrored(before, i, after) ==
    /\ Len(after) = 2 * (Len(before) - 1)
    /\ \A id \in IDsOf(before) \cup IDsOf(after) :
          CountID(after, id) = CountID(WithoutAxis(before, i), id)
                               + CountNegatedID(WithoutAxis(before, i), id)

\* the states in which unfold is called
Unfoldable ==
    panel_err = NoErr /\ Len(panel_ops) < MaxPanelOps /\ Len(panel.edges) \in 1..MaxUnfoldEdges

\* the id of the axis occurs in the result only if one of the other edges
\* carried one of the ids of the set
AxisIDOnlyFrom(rest, axis_id, after, sources) ==
    (axis_id # <<>> /\ \A k \in 1..Len(rest) : rest[k].freesewing_ID \notin sources)
        => CountID(after, axis_id) = 0

\* what unfold(i) returned, if it returned, holds the ids as stated, the
\* axis id only if another edge had it
UnfoldKeepsIDs(before, i, r) ==
    r.err = NoErr =>
        /\ IDsMirrored(before, i, r.panel.edges)
        /\ AxisIDOnlyFrom(WithoutAxis(before, i), AxisOf(before, i).freesewing_ID, r.panel.edges,
                          {AxisOf(before, i).freesewing_ID})

\* the same, the axis id only if another edge had it or its negation
UnfoldKeepsIDsOrNegated(before, i, r) ==
    r.err = NoErr =>
        /\ IDsMirrored(before, i, r.panel.edges)
        /\ AxisIDOnlyFrom(WithoutAxis(before, i), AxisOf(before, i).freesewing_ID, r.panel.edges,
                          {AxisOf(before, i).freesewing_ID,
                           IF AxisOf(before, i).freesewing_ID = <<>> THEN <<>>
                           ELSE <<0 - AxisOf(before, i).freesewing_ID[1]>>})

\* C24 as stated: after unfold(i) the result holds the n-1 non-axis edges
\* with their ids unchanged and n-1 mirrored copies with the ids negated, and
\* the id of the removed axis edge no longer occurs unless another edge had it.
C24_AxisIDGone ==
    Unfoldable =>
        \A i \in -1..(Len(panel.edges) - 1) : UnfoldKeepsIDs(panel.edges, i, unfold(panel, i))

\* C24 amended: the id of the removed axis edge no longer occurs unless
\* another edge had it or its negation.
C24_AxisIDGoneUnlessNegated ==
    Unfoldable =>
        \A i \in -1..(Len(panel.edges) - 1) :
            UnfoldKeepsIDsOrNegated(panel.edges, i, unfold(panel, i))

\* the triangle with the ids 1, 2 and none has been unfolded along the edge
\* with id 1: the ids are now 2, -2 and twice none
C24_Witness ==
    /\ panel_ops = <<"unfold">>
    /\ panel_err = NoErr
    /\ panel.name = "half"
    /\ Len(panel.edges) = 4
    /\ CountID(panel.edges, <<2>>) = 1
    /\ CountID(panel.edges, <<-2>>) = 1
    /\ CountID(panel.edges, <<>>) = 2
    /\ CountID(panel.edges, <<1>>) = 0

\* what is left of the panel a side of a stitch names, and its match list
PartOfSide(parts, side) == parts[IndexOf([k \in 1..Len(parts) |-> parts[k].name], side.panel)]
MatchesOfSide(parts, side) == PartOfSide(parts, side).matches[side.edge + 1]

\* min(m, n) for the match lists of the two sides of a stitch
SeamCount(parts, stitch) ==
    IF Cardinality(MatchesOfSide(parts, stitch[1])) < Cardinality(MatchesOfSide(parts, stitch[2]))
      THEN Cardinality(MatchesOfSide(parts, stitch[1]))
      ELSE Cardinality(MatchesOfSide(parts, stitch[2]))

RECURSIVE SeamsBefore(_, _, _)
\* the number of seam edges of the stitches before stitch s
SeamsBefore(parts, st, s) ==
    IF s <= 1 THEN 0 ELSE SeamsBefore(parts, st, s - 1) + SeamCount(parts, st[s - 1])

\* the componentwise minimum of the vertices of one panel
OwnLowestPoint(vertices, part) ==
    [c \in 1..3 |-> RMinOf({vertices[i][c] : i \in (part.offset + 1)..(part.offset + part.vertices)})]

\* seq lists the Len(seq) matches of S closest to the anchor, closest first
ClosestFirst(seq, S, vertices, anchor) ==
    /\ \A k \in 1..Len(seq) : seq[k] \in S
    /\ \A k \in 1..Len(seq) : \A l \in 1..Len(seq) : k # l => seq[k] # seq[l]
    /\ \A k \in 1..(Len(seq) - 1) :
          RLe(Dist3Sq(vertices[seq[k] + 1], anchor), Dist3Sq(vertices[seq[k + 1] + 1], anchor))
    /\ \A w \in S \ {seq[k] : k \in 1..Len(seq)} : \A k \in 1..Len(seq) :
          RLe(Dist3Sq(vertices[seq[k] + 1], anchor), Dist3Sq(vertices[w + 1], anchor))

\* the seam edges of one stitch pair the closest matches of its two sides in
\* order of distance to the two anchors
SeamPaired(seam, parts, stitch, vertices, anchor_a, anchor_b) ==
    /\ Len(seam) = SeamCount(parts, stitch)
    /\ ClosestFirst([k \in 1..Len(seam) |-> seam[k][1]], MatchesOfSide(parts, stitch[1]),
                    vertices, anchor_a)
    /\ ClosestFirst([k \in 1..Len(seam) |-> seam[k][2]], MatchesOfSide(parts, stitch[2]),
                    vertices, anchor_b)

\* the seam edges the mesh holds for stitch s
SeamOf(out, st, s) ==
    SubSeq(out.stitches, SeamsBefore(out.parts, st, s) + 1, SeamsBefore(out.parts, st, s + 1))

\* C25: for every declared stitch whose edges have match lists of lengths m
\* and n the mesh holds exactly min(m, n) seam edges, the k-th joining the
\* k-th closest match of side A to the k-th closest match of side B, each
\* side ordered by the 3D distance to the lowest point of its own panel.
C25_SeamsPairedByOwnLowestPoint ==
    MeshWritten =>
        /\ Len(outcome.stitches) = SeamsBefore(outcome.parts, task.stitches, Len(task.stitches) + 1)
        /\ \A s \in 1..Len(task.stitches) :
              SeamPaired(SeamOf(outcome, task.stitches, s), outcome.parts, task.stitches[s],
                         outcome.vertices,
                         OwnLowestPoint(outcome.vertices, PartOfSide(outcome.parts, task.stitches[s][1])),
                         OwnLowestPoint(outcome.vertices, PartOfSide(outcome.parts, task.stitches[s][2])))

\* the same with the anchor the code stores in p.lowest_point: the minimum
\* over the vertices of that panel and of every panel before it
C25_SeamsPairedByStoredLowestPoint ==
    MeshWritten =>
        /\ Len(outcome.stitches) = SeamsBefore(outcome.parts, task.stitches, Len(task.stitches) + 1)
        /\ \A s \in 1..Len(task.stitches) :
              SeamPaired(SeamOf(outcome, task.stitches, s), outcome.parts, task.stitches[s],
                         outcome.vertices,
                         PartOfSide(outcome.parts, task.stitches[s][1]).lowest_point,
                         PartOfSide(outcome.parts, task.stitches[s][2]).lowest_point)

\* the local indices of the triangulated vertices matched to edge j of panel
\* k of the task: ends of topology segments near a subpoint of the edge
LocalMatches(ps, k, j, how) ==
    MatchesOf(triangulate(ShapeVertices(ps[k].edges, smallest_edge(ps)), how),
              subpoints(ps[k].edges[j], smallest_edge(ps)))

\* C26: moving the matches into the global index space loses none: for
\* every edge the global matches are exactly the local indices of the
\* vertices matched to it, local index 0 included, plus the panel's offset.
C26_NoMatchLost ==
    (task.op = "create_mesh_cache" /\ outcome # NoOutcome) =>
        \A k \in 1..Len(task.panels) : \A j \in 1..Len(task.panels[k].edges) :
            outcome.parts[k].matches[j] =
                {i + outcome.parts[k].offset :
                    i \in LocalMatches(task.panels, k, j, task.triangulation)}

(***************************************************************************)
(* Properties of a pattern and its copy                                    *)
(***************************************************************************)

\* the stitches of a pattern: the content of the list object it names
StitchesOf(pat, lists) == lists[pat.stitches]

\* the step is a call of add_stitch or remove_panels on the target
EditOn(target) ==
    /\ edit'.n = edit.n + 1
    /\ edit'.target = target
    /\ edit'.op \in {"add_stitch", "remove_panels"}
    /\ pattern_q # NoPattern

\* C27: q = Pattern.from_json(p.as_json()) shares no mutable state with p:
\* a call of add_stitch or remove_panels on q leaves p.stitches and p's
\* panels as they were, and a call on p leaves those of q as they were.
C27_CopySharesNothing ==
    [][/\ EditOn("q") =>
            /\ StitchesOf(pattern_p', heap') = StitchesOf(pattern_p, heap)
            /\ pattern_p'.panels = pattern_p.panels
       /\ EditOn("p") =>
            /\ StitchesOf(pattern_q', heap') = StitchesOf(pattern_q, heap)
            /\ pattern_q'.panels = pattern_q.panels]_vars

\* the panels of the copy are objects of their own, and remove_panels gives
\* the pattern a list of its own
C27_PanelsNotShared ==
    [][/\ EditOn("q") => pattern_p'.panels = pattern_p.panels
       /\ EditOn("p") => pattern_q'.panels = pattern_q.panels
       /\ (EditOn("q") /\ pattern_p.stitches # pattern_q.stitches) =>
              StitchesOf(pattern_p', heap') = StitchesOf(pattern_p, heap)]_vars

\* the step is a call of remove_panels that raised
RemoveRaised ==
    /\ call'.n = call.n + 1
    /\ call'.op = "remove_panels"
    /\ call'.err # NoErr

\* C28: remove_panels is all-or-nothing: whenever the call raises (a panel
\* name the pattern does not have, the same name given twice, an argument
\* of a wrong type), panels and stitches are exactly as before the call.
C28_RemoveAllOrNothing ==
    [][RemoveRaised => (panels' = panels /\ stitches' = stitches)]_vars

\* a call that raises keeps the stitches, and keeps the panels when it
\* raised while the arguments were resolved
C28_RemoveKeepsStitchesOnRaise ==
    [][RemoveRaised =>
          /\ stitches' = stitches
          /\ SelectLoop(call'.args, panels, <<>>).err # NoErr => panels' = panels]_vars

(***************************************************************************)
(* Properties of straighten_curves and of repeated unsplit_lines           *)
(***************************************************************************)

\* the step is a call of straighten_curves that returned
Straightened ==
    /\ panel_ops' # panel_ops
    /\ LastOp' = "straighten_curves"
    /\ panel_err' = NoErr

\* the Curve e was converted to the Line l
Converted(e, l) == IsCurve(e) /\ ~IsCurve(l)

\* C29: straighten_curves changes only the edge type: a converted Curve is a
\* Line with the same p0 and p1, the same endpoints index pair and the same
\* provenance id, and every other edge is left as it was.
C29_StraightenKeepsEndpointsAndID ==
    [][Straightened =>
          /\ Len(panel'.edges) = Len(panel.edges)
          /\ \A k \in 1..Len(panel.edges) :
                IF Converted(panel.edges[k], panel'.edges[k])
                  THEN /\ panel'.edges[k].p0 = panel.edges[k].p0
                       /\ panel'.edges[k].p1 = panel.edges[k].p1
                       /\ panel'.edges[k].endpoints = panel.edges[k].endpoints
                       /\ panel'.edges[k].freesewing_ID = panel.edges[k].freesewing_ID
                  ELSE panel'.edges[k] = panel.edges[k]]_vars

\* what straighten_curves does keep: the ends of a converted Curve and every
\* other edge; the Line it makes is a new one, without endpoints and id
C29_StraightenMakesNewLine ==
    [][Straightened =>
          /\ Len(panel'.edges) = Len(panel.edges)
          /\ \A k \in 1..Len(panel.edges) :
                IF Converted(panel.edges[k], panel'.edges[k])
                  THEN panel'.edges[k] = Line(panel.edges[k].p0, panel.edges[k].p1)
                  ELSE panel'.edges[k] = panel.edges[k]]_vars

\* the consecutive Lines at positions k and k+1 of the list are as straight
\* as the treshold asks: dist(p0, n1) / (dist(p0, p1) + dist(p1, n1)) >= treshold
Fusable(edges, k, treshold) ==
    /\ ~IsCurve(edges[k])
    /\ ~IsCurve(edges[k + 1])
    /\ ~(RIsZero(Dist2(edges[k].p0, edges[k].p1)) /\ RIsZero(Dist2(edges[k].p1, edges[k + 1].p1)))
    /\ RatioAtLeast(Dist2(edges[k].p0, edges[k + 1].p1), Dist2(edges[k].p0, edges[k].p1),
                    Dist2(edges[k].p1, edges[k + 1].p1), treshold)

\* no pair is left to fuse, and a second call leaves the panel as it is
Fixpoint(self, treshold, again) ==
    /\ \A k \in 1..(Len(self.edges) - 1) : ~Fusable(self.edges, k, treshold)
    /\ again.err = NoErr
    /\ again.panel = self

\* the step is the call unsplit_lines(treshold), and it returned
Unsplit(treshold, r) ==
    /\ panel_ops' # panel_ops
    /\ LastOp' = "unsplit_lines"
    /\ panel_err' = NoErr
    /\ r.err = NoErr
    /\ panel' = r.panel

\* C30: unsplit_lines(t) reaches a fixpoint in one call: afterwards no two
\* consecutive Line edges of the list have a ratio of at least t, and a
\* second call with the same treshold changes nothing.
C30_UnsplitReachesFixpoint ==
    [][\A treshold \in UnsplitTresholds :
          Unsplit(treshold, unsplit_lines(panel, treshold)) =>
              Fixpoint(panel', treshold, unsplit_lines(panel', treshold))]_vars

====
